---------------------------- MODULE Spec2Model ----------------------------
(***************************************************************************)
(* Model of the Tribal-Hunter-Fanfare bot: the currency ledger             *)
(* (cogs/coins.py), the wagering engine (cogs/game.py) and the activity    *)
(* counter (bot.py), for one guild.                                        *)
(*                                                                         *)
(* Concurrency.  The bot is one asyncio event loop.  Every SQLite call is  *)
(* synchronous, so a handler runs without interruption from one `await`    *)
(* to the next; other handlers run only while it is suspended at an        *)
(* `await` (a reply being sent, a wait_for).  An action of this module is  *)
(* therefore the code of a handler between two awaits, and a handler that  *)
(* still has work after an await leaves a continuation in the state        *)
(* (bj_ending, dice_wait).                                                 *)
(***************************************************************************)
EXTENDS Integers, Sequences, FiniteSets, TLC

Max(a, b) == IF a >= b THEN a ELSE b
Min(a, b) == IF a <= b THEN a ELSE b

\* No user / no member, in a reply.
Null == "null"

\* A nullable column or an optional value: <<>> is SQL NULL / Python None /
\* a missing dict key, <<v>> holds v.
None == <<>>
Some(v) == <<v>>

\* Human members of the guild, and one bot account (member.bot is true).
Users == {"u1", "u2"}
BotMember == "bot"
Members == Users \cup {BotMember}

\* The role every guild has and every member holds; it is no level role.
Everyone == "@everyone"

---------------------------------------------------------------------------
(* Program constants *)

DEFAULT_REWARD == 10
DEFAULT_COOLDOWN == 86400
DEFAULT_SYMBOL == <<"coin">>

\* bot.py
DEFAULT_COOLDOWN_SECONDS == 20
MIN_COUNTABLE_LEN == 3
PREFIX == "!"
LEVELS == << [name |-> "LVMAX", threshold |-> 1000],
             [name |-> "LV3", threshold |-> 100],
             [name |-> "LV2", threshold |-> 10],
             [name |-> "LV1", threshold |-> 0] >>
LevelNames == {LEVELS[i].name : i \in 1..Len(LEVELS)}

\* cogs/game.py: the total a member needs to play (LV2)
GAME_MIN_TOTAL == 10

---------------------------------------------------------------------------
(* Bounds of the model *)

\* time.time() at the first modelled event; later events happen at
\* StartTime + d for the offsets d below.
StartTime == 100
ClaimInstants == {StartTime + d : d \in {0, 1, 2, DEFAULT_COOLDOWN}}
MsgInstants == {StartTime + d : d \in {0, 2, DEFAULT_COOLDOWN_SECONDS}}

\* Coins in circulation are capped: an operation that mints coins (claim,
\* givecoins) is taken only while the total stays within MaxSupply.
MaxSupply == 12

\* Amounts typed by users on !sharecoins, !givecoins, !takecoins.
Amounts == {-1, 0, 1, 2}
\* Values typed by admins on !claimcfg reward / cooldown.
CfgRewards == {-1, 1}
CfgCooldowns == {-1, 0, 2}

\* Counted messages per user are capped.
MaxLive == 2
\* Values typed by admins on !lv_cooldown.
LvCooldowns == {-1, 0, 2}
\* Totals typed by admins on !lv_set: refused, below a live count of 2, and
\* the thresholds of LV2 and LV3.
LvTargets == {-1, 1, 10, 100}
\* Who sends !lv about a player, and whether they may manage roles.
LvCallers == { <<"u1", FALSE>>, <<"u2", FALSE>>, <<"u2", TRUE>> }
\* The outcomes of the role calls explored with them: both succeed, the
\* grant is forbidden, the revocation fails with an API error.
LvFaults == {"none", "add", "remove_http"}
\* The instants of the messages counted in between.
LvInstants == {StartTime, StartTime + DEFAULT_COOLDOWN_SECONDS}
\* The totals at which the resolvers are examined lie within TierSpread of
\* a threshold: the adjusted counts found in the files at the start.
TierSpread == 2
TierTotals ==
    UNION { {n \in (LEVELS[i].threshold - TierSpread)..(LEVELS[i].threshold + TierSpread) :
                n >= 0} : i \in 1..Len(LEVELS) }
\* The level roles that admins delete and create again.
EditedRoles == {"LV2"}
\* Blackjack sessions a user starts, handlers of one user suspended before
\* their teardown, and dice wagers a user places, are capped.
MaxSessions == 2
MaxInflight == 2
MaxWagers == 2
\* Bets typed on !blackjack, and the grants that fund them.
BjBets == {0, 2}
BjFunds == {6}
\* The members who play in the specifications of the games.
Players == {"u1"}
\* In the composition of all commands: the one amount granted, revoked,
\* transferred and staked, and the texts that answer a dice prompt.
Stakes == {10}
FewTexts == { <<"3">>, <<"x">> }
FewRolls == { <<3, 4>>, <<4, 4>> }
\* In that composition a user starts at most MaxPlays games, of either kind.
MaxPlays == 1
\* Message texts, as sequences of characters: empty, blank, too short with
\* and without surrounding blanks, just long enough with and without them,
\* and a command.
Contents == { <<>>,
              <<" ", " ", " ">>,
              <<"x", "x">>,
              <<" ", "x", "x", " ">>,
              <<"x", "x", "x">>,
              <<" ", "x", "x", "x", " ">>,
              <<"!", "x", "x">> }

---------------------------------------------------------------------------
VARIABLES
    now,             \* time.time(), whole seconds
    coins,           \* table coins: user -> [balance, last_claim]; a missing
                     \* row reads as (0, 0) in every reader, so it is total
    guild_settings,  \* the guild's row of table guild_settings (nullable columns)
    settings_cache,  \* Coins.settings_cache[guild]: None when not cached
    reply,           \* what the step just taken answered: the command, its
                     \* arguments and the outcome it reported (NoReply when the
                     \* step sent nothing)
    xfer,            \* history: what the last transfer that wrote anything debited
                     \* from its sender and credited to its receiver
    message_counts,  \* table message_counts: user -> count (live); a missing
                     \* row reads as 0
    adjusted_files,  \* the per-user text files: user -> adjusted_message_count,
                     \* None when the file does not exist
    last_increment,  \* bot.py last_increment: user -> time of the last counted
                     \* message, None when the key is absent
    cooldown_cache,  \* bot.py cooldown_cache[guild]: None when not cached
    member_roles,    \* member.roles: user -> the role names the member holds
    guild_roles,     \* guild.roles: the role names that exist in the guild
    ensured,         \* history: user -> None, or the last call of ensure_lv_role
                     \* for the user since the roles were last edited by an
                     \* admin: the level asked for, the roles held before it,
                     \* the outcome of the role calls, what it returned, and
                     \* the message of the call before it if that asked for
                     \* the same level
    prev_msg,        \* history: user -> the countable message of the user
                     \* that on_message handled last: when it arrived,
                     \* whether it was counted, the cooldown then
    bj_state,        \* Games.bj_state: user -> None, or the session dict
                     \* (bet, deck, player, dealer) with sid, the number of
                     \* the start that created it (history)
    bj_ending,       \* user -> the handlers suspended in _bj_show with their
                     \* _bj_end still to run, each named by the session it settled
    bj_sid,          \* history: user -> sessions started so far
    bj_hist,         \* history: user -> session -> how many times _bj_settle
                     \* ran for it, and how many of those credited coins
    bj_stolen,       \* history: user -> the sessions that were removed, never
                     \* settled, by the _bj_end of a handler of another session
    dice_wait,       \* user -> the suspended !diceroll handlers: bet, channel,
                     \* the local bal, where the handler stands (prompt,
                     \* waiting, got) and the message wait_for returned
    dice_placed      \* history: user -> wagers placed so far

ledger == <<coins, guild_settings, settings_cache, xfer>>
activity == <<message_counts, adjusted_files, last_increment, cooldown_cache,
              member_roles, guild_roles, ensured, prev_msg>>
bj == <<bj_state, bj_ending, bj_sid, bj_hist, bj_stolen>>
dice == <<dice_wait, dice_placed>>
games == <<bj, dice>>
vars == <<now, reply, ledger, activity, games>>

NoReply == [op |-> "none", user |-> Null, member |-> Null, n |-> 0,
            res |-> "none", val |-> <<>>]

Reply(op, user, member, n, res, val) ==
    [op |-> op, user |-> user, member |-> member, n |-> n, res |-> res, val |-> val]

Supply(c) == c["u1"].balance + c["u2"].balance

---------------------------------------------------------------------------
(* cogs/coins.py: storage helpers *)

get_settings_db ==
    [reward   |-> IF guild_settings.claim_reward # None
                  THEN guild_settings.claim_reward[1] ELSE DEFAULT_REWARD,
     cooldown |-> IF guild_settings.claim_cooldown # None
                  THEN guild_settings.claim_cooldown[1] ELSE DEFAULT_COOLDOWN,
     symbol   |-> IF /\ guild_settings.currency_symbol # None
                     /\ guild_settings.currency_symbol[1] # <<>>
                  THEN guild_settings.currency_symbol[1] ELSE DEFAULT_SYMBOL]

set_settings_db(reward, cooldown, symbol) ==
    [guild_settings EXCEPT !.claim_reward = Some(reward),
                           !.claim_cooldown = Some(cooldown),
                           !.currency_symbol = Some(symbol)]

\* The value get_settings returns; it also leaves that value in the cache.
get_settings ==
    IF settings_cache # None THEN settings_cache[1] ELSE get_settings_db

\* str.strip() of a text, as a sequence of characters.
RECURSIVE LStrip(_)
LStrip(s) == IF s # <<>> /\ Head(s) = " " THEN LStrip(Tail(s)) ELSE s

RECURSIVE RStrip(_)
RStrip(s) ==
    IF s # <<>> /\ s[Len(s)] = " " THEN RStrip(SubSeq(s, 1, Len(s) - 1)) ELSE s

strip(s) == RStrip(LStrip(s))

\* Outcomes of the write of _set_settings_db: it succeeds or it raises
\* (sqlite3.Error: locked database, full disk).
CfgFaults == {"none", "write"}

\* Variant: the cache is updated before the write, also when the write fails.
set_settings_CacheFirst(reward, cooldown, symbol, fault) ==
    [db    |-> IF fault = "none" THEN set_settings_db(reward, cooldown, symbol)
               ELSE guild_settings,
     cache |-> Some([reward |-> reward, cooldown |-> cooldown, symbol |-> symbol])]

\* set_settings called by a handler that has just called get_settings, so
\* that the cache is filled: the table and the cache it leaves.  The write
\* comes first; when it raises the cache is not reached.
set_settings(reward, cooldown, symbol, fault) ==
    IF fault = "none"
    THEN [db    |-> set_settings_db(reward, cooldown, symbol),
          cache |-> Some([reward |-> reward, cooldown |-> cooldown,
                          symbol |-> symbol])]
    ELSE [db |-> guild_settings, cache |-> Some(get_settings)]

get_user(c, u) == c[u]

set_user(c, u, balance, last_claim) ==
    [c EXCEPT ![u] = [balance |-> balance, last_claim |-> last_claim]]

Coins_add_balance(c, u, delta) ==
    LET row == get_user(c, u)
        new_bal == Max(0, row.balance + delta)
    IN  set_user(c, u, new_bal, row.last_claim)

---------------------------------------------------------------------------
(* cogs/coins.py: commands *)

\* The cooldown reply shows the remaining time as hours, minutes, seconds.
FmtRemaining(remaining) ==
    <<remaining \div 3600, (remaining % 3600) \div 60, remaining % 60>>

ClaimRemaining(cooldown, t, last) == cooldown - (t - last)

\* Variant: the never-claimed case (last_claim = 0) is not exempted.
ClaimStillCooling_NoZeroCase(last, remaining) == remaining > 0

ClaimStillCooling(last, remaining) == last # 0 /\ remaining > 0

\* Variant: the claim time is not stored (the old last_claim is written back).
ClaimWrite_KeepsLast(c, u, bal, reward, t) ==
    set_user(c, u, bal + reward, get_user(c, u).last_claim)

ClaimWrite(c, u, bal, reward, t) == set_user(c, u, bal + reward, t)

Claim(u) ==
    LET s == get_settings
        row == get_user(coins, u)
        remaining == ClaimRemaining(s.cooldown, now, row.last_claim)
    IN  /\ settings_cache' = Some(s)
        /\ IF ClaimStillCooling(row.last_claim, remaining)
           THEN /\ coins' = coins
                /\ reply' = Reply("claim", u, Null, 0, "cooling", FmtRemaining(remaining))
           ELSE /\ Supply(coins) + s.reward <= MaxSupply
                /\ coins' = ClaimWrite(coins, u, row.balance, s.reward, now)
                /\ reply' = Reply("claim", u, Null, s.reward, "claimed", <<>>)
        /\ UNCHANGED <<now, guild_settings, xfer, activity, games>>

\* Outcomes of the two _set_user writes of a transfer: both succeed, or the
\* first or the second raises (sqlite3.Error: locked database, full disk).
WriteFaults == {"none", "debit", "credit"}

\* Variant: the balance check of a transfer is missing.
SufficientFunds_Unchecked(sender_bal, amount) == TRUE

SufficientFunds(sender_bal, amount) == sender_bal >= amount

NewSenderBal(sender_bal, amount) == sender_bal - amount

\* Variant: the receiver's balance is overwritten with the amount.
NewReceiverBal_Overwrite(receiver_bal, amount) == amount

NewReceiverBal(receiver_bal, amount) == receiver_bal + amount

Sharecoins(sender, member, amount, fault) ==
    LET srow == get_user(coins, sender)
    IN  /\ UNCHANGED <<now, guild_settings, settings_cache, activity, games>>
        /\ IF amount <= 0
           THEN /\ fault = "none"
                /\ reply' = Reply("sharecoins", sender, member, amount, "bad_amount", <<>>)
                /\ UNCHANGED <<coins, xfer>>
           ELSE IF member = BotMember
           THEN /\ fault = "none"
                /\ reply' = Reply("sharecoins", sender, member, amount, "bot", <<>>)
                /\ UNCHANGED <<coins, xfer>>
           ELSE IF member = sender
           THEN /\ fault = "none"
                /\ reply' = Reply("sharecoins", sender, member, amount, "self", <<>>)
                /\ UNCHANGED <<coins, xfer>>
           ELSE IF ~SufficientFunds(srow.balance, amount)
           THEN /\ fault = "none"
                /\ reply' = Reply("sharecoins", sender, member, amount, "insufficient",
                                  <<>>)
                /\ UNCHANGED <<coins, xfer>>
           ELSE LET rrow == get_user(coins, member)
                    new_sender_bal == NewSenderBal(srow.balance, amount)
                    new_receiver_bal == NewReceiverBal(rrow.balance, amount)
                    debited == set_user(coins, sender, new_sender_bal, srow.last_claim)
                    credited == set_user(debited, member, new_receiver_bal, rrow.last_claim)
                IN  CASE fault = "none" ->
                           /\ coins' = credited
                           /\ xfer' = [debited |-> amount, credited |-> amount]
                           /\ reply' = Reply("sharecoins", sender, member, amount, "ok",
                                             <<>>)
                      [] fault = "debit" ->
                           /\ UNCHANGED <<coins, xfer>>
                           /\ reply' = Reply("sharecoins", sender, member, amount,
                                             "error", <<>>)
                      [] fault = "credit" ->
                           /\ coins' = debited
                           /\ xfer' = [debited |-> amount, credited |-> 0]
                           /\ reply' = Reply("sharecoins", sender, member, amount,
                                             "error", <<>>)

Givecoins(member, amount) ==
    /\ UNCHANGED <<now, guild_settings, settings_cache, xfer, activity, games>>
    /\ IF amount <= 0
       THEN /\ reply' = Reply("givecoins", Null, member, amount, "bad_amount", <<>>)
            /\ coins' = coins
       ELSE IF member = BotMember
       THEN /\ reply' = Reply("givecoins", Null, member, amount, "bot", <<>>)
            /\ coins' = coins
       ELSE /\ Supply(coins) + amount <= MaxSupply
            /\ coins' = Coins_add_balance(coins, member, amount)
            /\ reply' = Reply("givecoins", Null, member, amount, "ok", <<>>)

Takecoins(member, amount) ==
    /\ UNCHANGED <<now, guild_settings, settings_cache, xfer, activity, games>>
    /\ IF amount <= 0
       THEN /\ reply' = Reply("takecoins", Null, member, amount, "bad_amount", <<>>)
            /\ coins' = coins
       ELSE IF member = BotMember
       THEN /\ reply' = Reply("takecoins", Null, member, amount, "bot", <<>>)
            /\ coins' = coins
       ELSE LET current == get_user(coins, member).balance
                deducted == Min(amount, current)
            IN  /\ coins' = Coins_add_balance(coins, member, -deducted)
                /\ reply' = Reply("takecoins", Null, member, deducted, "ok", <<>>)

\* !claimcfg, !claimcfg reward <value> and !claimcfg cooldown <value>.
Claimcfg(sub, value, fault) ==
    LET s == get_settings
    IN  /\ UNCHANGED <<now, coins, xfer, activity, games>>
        /\ IF sub = "show"
           THEN /\ fault = "none"
                /\ settings_cache' = Some(s)
                /\ guild_settings' = guild_settings
                /\ reply' = Reply("claimcfg", Null, Null, value, "show",
                                  <<s.reward, s.cooldown, s.symbol>>)
           ELSE IF value < 0
           THEN /\ fault = "none"
                /\ settings_cache' = Some(s)
                /\ guild_settings' = guild_settings
                /\ reply' = Reply("claimcfg", Null, Null, value, "bad_value", <<>>)
           ELSE LET reward == IF sub = "reward" THEN value ELSE s.reward
                    cooldown == IF sub = "cooldown" THEN value ELSE s.cooldown
                    w == set_settings(reward, cooldown, s.symbol, fault)
                IN  /\ guild_settings' = w.db
                    /\ settings_cache' = w.cache
                    /\ reply' = Reply("claimcfg", Null, Null, value,
                                      IF fault = "none" THEN sub ELSE "error",
                                      <<reward, cooldown, s.symbol>>)

\* !currency and !currency <symbol>, the symbol being a text that is not a
\* custom emoji: the converter raises BadArgument and the text is stripped.
Currency(symbol, fault) ==
    LET s == get_settings
    IN  /\ UNCHANGED <<now, coins, xfer, activity, games>>
        /\ IF symbol = None
           THEN /\ fault = "none"
                /\ settings_cache' = Some(s)
                /\ guild_settings' = guild_settings
                /\ reply' = Reply("currency", Null, Null, 0, "show",
                                  <<s.reward, s.cooldown, s.symbol>>)
           ELSE LET new_symbol == strip(symbol[1])
                IN  IF new_symbol = <<>>
                    THEN /\ fault = "none"
                         /\ settings_cache' = Some(s)
                         /\ guild_settings' = guild_settings
                         /\ reply' = Reply("currency", Null, Null, 0, "invalid", <<>>)
                    ELSE LET w == set_settings(s.reward, s.cooldown, new_symbol, fault)
                         IN  /\ guild_settings' = w.db
                             /\ settings_cache' = w.cache
                             /\ reply' = Reply("currency", Null, Null, 0,
                                               IF fault = "none" THEN "ok" ELSE "error",
                                               <<s.reward, s.cooldown, new_symbol>>)

\* Coins.on_ready, at every (re)connection: the cache is filled from the
\* table.
CoinsOnReady ==
    /\ settings_cache' = Some(get_settings_db)
    /\ reply' = Reply("on_ready", Null, Null, 0, "ok", <<>>)
    /\ UNCHANGED <<now, coins, guild_settings, xfer, activity, games>>

\* Time passes, to a later one of the given instants.
Tick(instants) ==
    /\ \E t \in instants : t > now /\ now' = t
    /\ reply' = NoReply
    /\ UNCHANGED <<ledger, activity, games>>

---------------------------------------------------------------------------
(* bot.py: activity counting and levels *)

get_live_count(u) == message_counts[u]

\* add_live_count adding twice the delta.
add_live_count_Twice(mc, u, delta) == [mc EXCEPT ![u] = @ + 2 * delta]

add_live_count(mc, u, delta) == [mc EXCEPT ![u] = @ + delta]

get_cooldown_db == guild_settings.cooldown_seconds

set_cooldown_db(seconds) == [guild_settings EXCEPT !.cooldown_seconds = Some(seconds)]

\* The value get_cooldown returns; it also leaves that value in the cache.
get_cooldown ==
    IF cooldown_cache # None THEN cooldown_cache[1]
    ELSE IF get_cooldown_db # None THEN get_cooldown_db[1]
    ELSE DEFAULT_COOLDOWN_SECONDS

get_adjusted_count(u) ==
    IF adjusted_files[u] = None THEN 0 ELSE Max(0, adjusted_files[u][1])

\* set_adjusted_count adding the value to the one stored.
set_adjusted_count_Accumulate(af, u, adjusted_value) ==
    [af EXCEPT ![u] = Some(get_adjusted_count(u) + Max(0, adjusted_value))]

set_adjusted_count(af, u, adjusted_value) ==
    [af EXCEPT ![u] = Some(Max(0, adjusted_value))]

\* <<total, adjusted, live>>
get_total_count(u) ==
    <<get_adjusted_count(u) + get_live_count(u), get_adjusted_count(u), get_live_count(u)>>

RECURSIVE LevelFrom(_, _)
LevelFrom(i, count) ==
    IF i > Len(LEVELS) THEN [name |-> "LV1", threshold |-> 0]
    ELSE IF count >= LEVELS[i].threshold THEN LEVELS[i]
    ELSE LevelFrom(i + 1, count)

\* get_target_level answering the floor level for every count.
get_target_level_Floor(count) == LEVELS[Len(LEVELS)]

get_target_level(count) == LevelFrom(1, count)

\* get_next_threshold walks LEVELS from its last entry to its first.
RECURSIVE NextFrom(_, _)
NextFrom(i, count) ==
    IF i < 1 THEN None
    ELSE IF count < LEVELS[i].threshold THEN Some(LEVELS[i])
    ELSE NextFrom(i - 1, count)

\* get_next_threshold answering the top level below it, None from it on.
get_next_threshold_Top(count) ==
    IF count < LEVELS[1].threshold THEN Some(LEVELS[1]) ELSE None

\* None for the pair (None, None) it returns at the top level.
get_next_threshold(count) == NextFrom(Len(LEVELS), count)

\* None when the guild has no role of that name.
find_role_by_name(directory, name) ==
    IF name \in directory THEN Some(name) ELSE None

\* Outcomes of the role calls of ensure_lv_role: both succeed, or add_roles
\* or remove_roles raises discord.Forbidden ("add", "remove"), or one of
\* them raises another discord.HTTPException ("add_http", "remove_http").
RoleFaults == {"none", "add", "remove", "add_http", "remove_http"}

\* The message of the except clause that catches the fault.
FaultMessage(fault) == IF fault \in {"add", "remove"} THEN "forbidden" ELSE "api_error"

\* ensure_lv_role returning changed = True whenever no role call raised.
ensure_lv_role_AlwaysChanged(held, directory, level_name, fault) ==
    LET need_add == level_name \notin held
        roles_to_remove == {r \in LevelNames \cap directory : r # level_name /\ r \in held}
    IN  IF level_name \notin directory
        THEN [roles |-> held, changed |-> FALSE, msg |-> "missing"]
        ELSE IF \/ need_add /\ fault \in {"add", "add_http"}
                \/ roles_to_remove # {} /\ fault \in {"remove", "remove_http"}
        THEN [roles |-> held, changed |-> FALSE, msg |-> FaultMessage(fault)]
        ELSE [roles |-> (held \cup {level_name}) \ roles_to_remove,
              changed |-> TRUE, msg |-> "ok"]

\* ensure_lv_role granting the target and revoking nothing.
ensure_lv_role_KeepsOthers(held, directory, level_name, fault) ==
    IF level_name \notin directory
    THEN [roles |-> held, changed |-> FALSE, msg |-> "missing"]
    ELSE IF level_name \notin held /\ fault \in {"add", "add_http"}
    THEN [roles |-> held, changed |-> FALSE, msg |-> FaultMessage(fault)]
    ELSE [roles |-> held \cup {level_name}, changed |-> level_name \notin held,
          msg |-> "ok"]

\* ensure_lv_role returning the changed flag it had when a role call raised.
ensure_lv_role_ReportsPartial(held, directory, level_name, fault) ==
    LET need_add == level_name \notin held
        roles_to_remove == {r \in LevelNames \cap directory : r # level_name /\ r \in held}
        after_add == IF need_add THEN held \cup {level_name} ELSE held
    IN  IF level_name \notin directory
        THEN [roles |-> held, changed |-> FALSE, msg |-> "missing"]
        ELSE IF need_add /\ fault \in {"add", "add_http"}
        THEN [roles |-> held, changed |-> FALSE, msg |-> FaultMessage(fault)]
        ELSE IF roles_to_remove # {} /\ fault \in {"remove", "remove_http"}
        THEN [roles |-> after_add, changed |-> need_add, msg |-> FaultMessage(fault)]
        ELSE [roles |-> after_add \ roles_to_remove,
              changed |-> need_add \/ roles_to_remove # {}, msg |-> "ok"]

\* ensure_lv_role on a member holding `held`: the roles held afterwards, and
\* the (changed, message) it returns.  Its role calls act on the roles the
\* member holds at Discord; the call is one step, so calls for one member do
\* not overlap.  A remove_roles that raises is taken to have removed nothing.
ensure_lv_role(held, directory, level_name, fault) ==
    LET target_role == find_role_by_name(directory, level_name)
        roles_to_remove == {r \in LevelNames \cap directory : r # level_name /\ r \in held}
        need_add == level_name \notin held
        after_add == IF need_add THEN held \cup {level_name} ELSE held
    IN  IF target_role = None
        THEN [roles |-> held, changed |-> FALSE, msg |-> "missing"]
        ELSE IF need_add /\ fault \in {"add", "add_http"}
        THEN [roles |-> held, changed |-> FALSE, msg |-> FaultMessage(fault)]
        ELSE IF roles_to_remove # {} /\ fault \in {"remove", "remove_http"}
        THEN [roles |-> after_add, changed |-> FALSE, msg |-> FaultMessage(fault)]
        ELSE [roles |-> after_add \ roles_to_remove,
              changed |-> need_add \/ roles_to_remove # {},
              msg |-> "ok"]

\* The record of a call ensure_lv_role(member, level_name) that returned e.
EnsureCall(member, level_name, fault, e) ==
    [ensured EXCEPT ![member] =
        Some([level |-> level_name, before |-> member_roles[member], fault |-> fault,
              changed |-> e.changed, msg |-> e.msg,
              prev |-> IF ensured[member] # None /\ ensured[member][1].level = level_name
                       THEN Some(ensured[member][1].msg)
                       ELSE None])]

InCooldown(t, last, guild_cd) ==
    t - (IF last = None THEN 0 ELSE last[1]) < guild_cd

\* process_commands runs a command for a message that starts with the prefix.
IsCommand(content) == content # <<>> /\ Head(content) = PREFIX

\* on_message, for a message that arrived at the time arrived.  It first
\* awaits process_commands, which returns at once for a message that is no
\* command and otherwise when the handler of the command has returned (the
\* command is an action of its own); the rest, modelled here, runs at the
\* time now at which process_commands returned.  The answer records
\* whether the member's roles were changed, and the text of the message.
OnMessage(author, arrived, content, fault) ==
    /\ arrived <= now
    /\ arrived < now => IsCommand(content)
    /\ UNCHANGED <<now, ledger, adjusted_files, guild_roles, games>>
    /\ IF author = BotMember
       THEN /\ fault = "none"
            /\ reply' = Reply("message", author, Null, 0, "ignored", <<0, content, fault>>)
            /\ UNCHANGED <<message_counts, last_increment, cooldown_cache, member_roles,
                           ensured, prev_msg>>
       ELSE IF Len(strip(content)) < MIN_COUNTABLE_LEN
       THEN /\ fault = "none"
            /\ reply' = Reply("message", author, Null, 0, "short", <<0, content, fault>>)
            /\ UNCHANGED <<message_counts, last_increment, cooldown_cache, member_roles,
                           ensured, prev_msg>>
       ELSE LET guild_cd == get_cooldown
            IN  /\ cooldown_cache' = Some(guild_cd)
                /\ prev_msg' = [prev_msg EXCEPT ![author] =
                        Some([arrived |-> arrived, cd |-> guild_cd,
                              counted |-> ~InCooldown(now, last_increment[author],
                                                      guild_cd)])]
                /\ IF InCooldown(now, last_increment[author], guild_cd)
                   THEN /\ fault = "none"
                        /\ reply' = Reply("message", author, Null, 0, "cooling",
                                          <<0, content, fault>>)
                        /\ UNCHANGED <<message_counts, last_increment, member_roles,
                                       ensured>>
                   ELSE /\ message_counts[author] < MaxLive
                        /\ message_counts' = add_live_count(message_counts, author, 1)
                        /\ last_increment' = [last_increment EXCEPT ![author] = Some(now)]
                        /\ LET total == get_adjusted_count(author) + message_counts'[author]
                               new_level == get_target_level(total).name
                               role == find_role_by_name(guild_roles, new_level)
                           IN  IF role # None /\ new_level \notin member_roles[author]
                               THEN LET e == ensure_lv_role(member_roles[author],
                                                            guild_roles, new_level, fault)
                                    IN  /\ member_roles' =
                                               [member_roles EXCEPT ![author] = e.roles]
                                        /\ ensured' = EnsureCall(author, new_level,
                                                                  fault, e)
                                        /\ reply' = Reply("message", author, Null, 1,
                                                          "counted",
                                                          <<IF e.changed THEN 1 ELSE 0, content,
                                                            fault>>)
                               ELSE /\ fault = "none"
                                    /\ UNCHANGED <<member_roles, ensured>>
                                    /\ reply' = Reply("message", author, Null, 1,
                                                      "counted", <<0, content, fault>>)

\* !lv_cooldown <seconds>
LvCooldown(seconds) ==
    /\ UNCHANGED <<now, coins, settings_cache, xfer, message_counts, adjusted_files,
                   last_increment, member_roles, guild_roles, ensured, prev_msg, games>>
    /\ IF seconds < 0
       THEN /\ reply' = Reply("lv_cooldown", Null, Null, seconds, "bad_value", <<>>)
            /\ UNCHANGED <<guild_settings, cooldown_cache>>
       ELSE /\ guild_settings' = set_cooldown_db(seconds)
            /\ cooldown_cache' = Some(seconds)
            /\ reply' = Reply("lv_cooldown", Null, Null, seconds, "ok", <<get_cooldown>>)

\* !lv_set <member> <provided_total>
LvSet(member, provided_total, fault) ==
    /\ UNCHANGED <<now, ledger, message_counts, last_increment, cooldown_cache,
                   guild_roles, prev_msg, games>>
    /\ IF provided_total < 0
       THEN /\ fault = "none"
            /\ reply' = Reply("lv_set", Null, member, provided_total, "bad_value", <<>>)
            /\ UNCHANGED <<adjusted_files, member_roles, ensured>>
       ELSE LET live == get_total_count(member)[3]
                adjusted == Max(0, provided_total - live)
                af == set_adjusted_count(adjusted_files, member, adjusted)
                total == Max(0, af[member][1]) + live
                level_name == get_target_level(total).name
                e == ensure_lv_role(member_roles[member], guild_roles, level_name, fault)
            IN  /\ adjusted_files' = af
                /\ member_roles' = [member_roles EXCEPT ![member] = e.roles]
                /\ ensured' = EnsureCall(member, level_name, fault, e)
                /\ reply' = Reply("lv_set", Null, member, provided_total, e.msg,
                                  <<total, Max(0, af[member][1]), live,
                                    level_name, e.changed>>)

\* !lv [member], sent by author about target (the author, or the member
\* named); can_manage is whether the author has manage_roles or
\* administrator in the channel.  When a role changed, announce_level_up
\* looks up the next threshold; the answer records it.
Lv(author, target, can_manage, fault) ==
    /\ UNCHANGED <<now, ledger, message_counts, adjusted_files, last_increment,
                   cooldown_cache, guild_roles, prev_msg, games>>
    /\ IF target # author /\ ~can_manage
       THEN /\ fault = "none"
            /\ reply' = Reply("lv", author, target, 0, "own_only", <<>>)
            /\ UNCHANGED <<member_roles, ensured>>
       ELSE LET counts == get_total_count(target)
                total == counts[1]
                level_name == get_target_level(total).name
                e == ensure_lv_role(member_roles[target], guild_roles, level_name, fault)
            IN  /\ member_roles' = [member_roles EXCEPT ![target] = e.roles]
                /\ ensured' = EnsureCall(target, level_name, fault, e)
                /\ reply' = Reply("lv", author, target, total, e.msg,
                                  <<total, counts[2], counts[3], level_name, e.changed,
                                    IF e.changed THEN get_next_threshold(total)
                                    ELSE None>>)

\* !lv_get [member]: the breakdown, without changing roles.
LvGet(author, target) ==
    /\ UNCHANGED <<now, ledger, activity, games>>
    /\ LET counts == get_total_count(target)
       IN  reply' = Reply("lv_get", author, target, counts[1], "ok",
                          <<counts[1], counts[2], counts[3],
                            get_target_level(counts[1]).name>>)

\* An admin of the guild deletes a role: no member holds it any more.
RoleDeleted(role) ==
    /\ role \in guild_roles
    /\ guild_roles' = guild_roles \ {role}
    /\ member_roles' = [u \in Users |-> member_roles[u] \ {role}]
    /\ ensured' = [u \in Users |-> None]
    /\ reply' = NoReply
    /\ UNCHANGED <<now, ledger, message_counts, adjusted_files, last_increment,
                   cooldown_cache, prev_msg, games>>

\* An admin of the guild creates a role.
RoleCreated(role) ==
    /\ role \notin guild_roles
    /\ guild_roles' = guild_roles \cup {role}
    /\ ensured' = [u \in Users |-> None]
    /\ reply' = NoReply
    /\ UNCHANGED <<now, ledger, message_counts, adjusted_files, last_increment,
                   cooldown_cache, member_roles, prev_msg, games>>

---------------------------------------------------------------------------
(* cogs/game.py: level gate and balance helpers *)

\* _get_adjusted_count and _get_live_count of game.py read the same file
\* and the same table as bot.py.
Games_get_total(u) == message_counts[u] + get_adjusted_count(u)

\* cogs/game.py has its own copy of LEVELS and of the loop over it.
Games_LEVELS == << [name |-> "LVMAX", threshold |-> 1000],
                   [name |-> "LV3", threshold |-> 100],
                   [name |-> "LV2", threshold |-> 10],
                   [name |-> "LV1", threshold |-> 0] >>

RECURSIVE Games_LevelFrom(_, _)
Games_LevelFrom(i, total) ==
    IF i > Len(Games_LEVELS) THEN "LV1"
    ELSE IF total >= Games_LEVELS[i].threshold THEN Games_LEVELS[i].name
    ELSE Games_LevelFrom(i + 1, total)

\* <<total, name>>
Games_get_total_and_level(u) ==
    <<Games_get_total(u), Games_LevelFrom(1, Games_get_total(u))>>

\* Variant: no level is required.
Games_meets_level_Always(u, min_threshold) == TRUE

\* The first component of _meets_level's result.
Games_meets_level(u, min_threshold) == Games_get_total_and_level(u)[1] >= min_threshold

\* cogs/utils/levels.py, the helper the shop imports, has a third copy; it
\* reads the same table and the same files.
Levels_LEVELS == << [name |-> "LVMAX", threshold |-> 1000],
                    [name |-> "LV3", threshold |-> 100],
                    [name |-> "LV2", threshold |-> 10],
                    [name |-> "LV1", threshold |-> 0] >>

RECURSIVE Levels_LevelFrom(_, _)
Levels_LevelFrom(i, total) ==
    IF i > Len(Levels_LEVELS) THEN "LV1"
    ELSE IF total >= Levels_LEVELS[i].threshold THEN Levels_LEVELS[i].name
    ELSE Levels_LevelFrom(i + 1, total)

\* <<total, name>>
Levels_get_total_and_level(u) ==
    LET total == message_counts[u] + get_adjusted_count(u)
    IN  <<total, Levels_LevelFrom(1, total)>>

\* _ensure_coins_row only materialises the (0, 0) row every reader assumes.
Games_get_balance(c, u) == c[u].balance

\* Variant: the row is replaced, which resets last_claim to the 0 of the
\* inserted row.
Games_set_balance_Replace(c, u, new_bal) ==
    [c EXCEPT ![u] = [balance |-> new_bal, last_claim |-> 0]]

\* The upsert sets the balance only; last_claim keeps its value.
Games_set_balance(c, u, new_bal) == [c EXCEPT ![u].balance = new_bal]

Games_add_balance(c, u, delta) ==
    Games_set_balance(c, u, Max(0, Games_get_balance(c, u) + delta))

\* The funds check letting every bet through.
BetCovered_Always(bal, bet) == TRUE

\* The funds check of !blackjack, !double and !diceroll: "if bal < bet: refuse".
BetCovered(bal, bet) == bal >= bet

---------------------------------------------------------------------------
(* cogs/game.py: cards *)

\* A card f"{rank}{suit}" is the pair <<rank, suit>>; card[:-1] is its rank.
Ranks == <<"A", "2", "3", "4", "5", "6", "7", "8", "9", "10", "J", "Q", "K">>
Suits == <<"S", "H", "D", "C">>

\* _new_deck before the shuffle: [f"{r}{s}" for r in ranks for s in suits].
OrderedDeck ==
    [i \in 1..(Len(Ranks) * Len(Suits)) |->
        <<Ranks[((i - 1) \div Len(Suits)) + 1], Suits[((i - 1) % Len(Suits)) + 1]>>]

\* int(rank) for a number card: the rank str(n) stands at position n of Ranks.
RankNumber(rank) == CHOOSE n \in 2..10 : Ranks[n] = rank

card_value(card) ==
    IF card[1] \in {"J", "Q", "K"} THEN 10
    ELSE IF card[1] = "A" THEN 11
    ELSE RankNumber(card[1])

RECURSIVE SumValues(_)
SumValues(cards) ==
    IF cards = <<>> THEN 0 ELSE card_value(Head(cards)) + SumValues(Tail(cards))

CountAces(cards) == Cardinality({i \in 1..Len(cards) : cards[i][1] = "A"})

\* Variant: at most one ace is downgraded.
Downgrade_Once(total, aces) == IF total > 21 /\ aces > 0 THEN total - 10 ELSE total

\* while total > 21 and aces: total -= 10; aces -= 1
RECURSIVE Downgrade(_, _)
Downgrade(total, aces) ==
    IF total > 21 /\ aces > 0 THEN Downgrade(total - 10, aces - 1) ELSE total

hand_value(cards) == Downgrade(SumValues(cards), CountAces(cards))

\* Variant: a pop that reads the last card and leaves it on the deck.
Rest_Keep(deck) == deck

\* deck.pop() takes the last element of the list.
Top(deck) == deck[Len(deck)]
Rest(deck) == SubSeq(deck, 1, Len(deck) - 1)

RECURSIVE Reverse(_)
Reverse(s) == IF s = <<>> THEN <<>> ELSE Append(Reverse(Tail(s)), Head(s))

InSeq(x, s) == \E i \in 1..Len(s) : s[i] = x

DeckNotIn(top, card) == ~InSeq(card, top)

\* random.shuffle can leave any permutation.  DeckWithTop(top) is the
\* permutation that deals the cards of top first, in that order, and then
\* the other cards.
DeckWithTop(top) ==
    LET others == SelectSeq(OrderedDeck, LAMBDA c : DeckNotIn(top, c))
    IN  others \o Reverse(top)

\* The first cards dealt by the shuffles explored: player, player, dealer,
\* dealer, then the draws.
DealtTops ==
    { \* 19 against 17; a hit draws a king and busts
      << <<"10", "S">>, <<"9", "S">>, <<"10", "H">>, <<"7", "S">>, <<"K", "S">> >>,
      \* a natural for the player
      << <<"A", "S">>, <<"K", "S">>, <<"9", "S">>, <<"8", "S">> >>,
      \* 17 against 17
      << <<"9", "S">>, <<"8", "S">>, <<"10", "S">>, <<"7", "S">>, <<"2", "S">> >>,
      \* 17 against 16; the dealer draws a five
      << <<"10", "S">>, <<"7", "S">>, <<"10", "H">>, <<"6", "S">>, <<"5", "S">> >> }

Shuffles == {DeckWithTop(top) : top \in DealtTops}

\* One of them: 19 against 17 with a king to come.
FewShuffles ==
    { DeckWithTop(<< <<"10", "S">>, <<"9", "S">>, <<"10", "H">>, <<"7", "S">>,
                     <<"K", "S">> >>) }

\* Variant: the dealer also draws on 17.
RECURSIVE dealer_play_On17(_, _)
dealer_play_On17(deck, dealer) ==
    IF hand_value(dealer) < 18
    THEN dealer_play_On17(Rest(deck), Append(dealer, Top(deck)))
    ELSE [deck |-> deck, dealer |-> dealer]

\* _dealer_play: the dealer draws while below 17.
RECURSIVE dealer_play(_, _)
dealer_play(deck, dealer) ==
    IF hand_value(dealer) < 17
    THEN dealer_play(Rest(deck), Append(dealer, Top(deck)))
    ELSE [deck |-> deck, dealer |-> dealer]

\* Variant: the half refunded on a surrender is rounded up.
SettleCredit_HalfUp(bet, result) ==
    CASE result = "win" -> bet * 2
      [] result = "blackjack" -> (bet * 5) \div 2
      [] result = "push" -> bet
      [] result = "surrender" -> (bet + 1) \div 2
      [] OTHER -> 0

\* What _bj_settle adds to the balance.
SettleCredit(bet, result) ==
    CASE result = "win" -> bet * 2
      [] result = "blackjack" -> (bet * 5) \div 2      \* int(bet * 2.5)
      [] result = "push" -> bet
      [] result = "surrender" -> bet \div 2
      [] OTHER -> 0

bj_settle(c, u, bet, result) ==
    IF result \in {"win", "blackjack", "push", "surrender"}
    THEN Games_add_balance(c, u, SettleCredit(bet, result))
    ELSE c

\* Variant: a player's natural is paid 3:2 whatever the dealer holds.
NaturalResult_PlayerFirst(pv, dv) ==
    IF pv = 21 THEN Some("blackjack")
    ELSE IF dv = 21 THEN Some("lose")
    ELSE None

\* The natural check of !blackjack; None when neither hand is a natural.
NaturalResult(pv, dv) ==
    IF pv = 21 /\ dv # 21 THEN Some("blackjack")
    ELSE IF dv = 21 /\ pv # 21 THEN Some("lose")
    ELSE IF pv = 21 /\ dv = 21 THEN Some("push")
    ELSE None

\* The comparison of !stand and !double.
StandResult(pv, dv) ==
    IF dv > 21 \/ pv > dv THEN "win"
    ELSE IF pv < dv THEN "lose"
    ELSE "push"

\* Variant: no hand is ever over.
Bust_Never(pv) == FALSE

\* "if pv > 21": the player's hand is over 21.
Bust(pv) == pv > 21

\* Variant: the card is drawn and the tracked bet stays as it was.
DoubleDraw_KeepsBet(old, bet) ==
    [old EXCEPT !.player = Append(@, Top(old.deck)), !.deck = Rest(@)]

\* !double once the additional bet is taken: st["bet"] += bet, and one card
\* goes from the deck to the player's hand.
DoubleDraw(old, bet) ==
    [old EXCEPT !.bet = @ + bet,
                !.player = Append(@, Top(old.deck)),
                !.deck = Rest(@)]

\* Variant of !double that lets the dealer play before it looks at the
\* player's hand.
DoubleOutcome_DealerFirst(drawn) ==
    LET played == dealer_play(drawn.deck, drawn.dealer)
        st == [drawn EXCEPT !.deck = played.deck, !.dealer = played.dealer]
    IN  [st |-> st,
         res |-> StandResult(hand_value(st.player), hand_value(st.dealer))]

\* !double after the card is drawn: a player over 21 loses at once, with
\* the session as the draw left it; otherwise the dealer plays and the
\* hands are compared.
DoubleOutcome(drawn) ==
    LET pv == hand_value(drawn.player)
        played == dealer_play(drawn.deck, drawn.dealer)
        st == [drawn EXCEPT !.deck = played.deck, !.dealer = played.dealer]
    IN  IF Bust(pv)
        THEN [st |-> drawn, res |-> "lose"]
        ELSE [st |-> st, res |-> StandResult(pv, hand_value(st.dealer))]

---------------------------------------------------------------------------
(* cogs/game.py: blackjack handlers *)

\* Removes element i of a sequence.
RemoveAt(s, i) == SubSeq(s, 1, i - 1) \o SubSeq(s, i + 1, Len(s))

\* From _bj_settle to the await inside _bj_show: the settlement is applied
\* and the handler is suspended with its _bj_end still to run.  st is the
\* session as the handler leaves it, c the ledger it settles on, debit what
\* the handler took from the balance before.
BjSettle(op, u, st, c, debit, result) ==
    /\ Len(bj_ending[u]) < MaxInflight
    /\ coins' = bj_settle(c, u, st.bet, result)
    /\ bj_state' = [bj_state EXCEPT ![u] = Some(st)]
    /\ bj_ending' = [bj_ending EXCEPT ![u] = Append(@, st.sid)]
    /\ bj_hist' = [bj_hist EXCEPT ![u][st.sid] =
                      [settles |-> @.settles + 1,
                       credits |-> @.credits +
                                   (IF SettleCredit(st.bet, result) > 0 THEN 1 ELSE 0)]]
    /\ reply' = Reply(op, u, Null, st.bet, result,
                      <<debit, SettleCredit(st.bet, result)>>)

\* A refusal that also drops the session stored for the user.
BjRefuse_DropsSession(op, u, n, res) ==
    /\ reply' = Reply(op, u, Null, n, res, <<0, 0>>)
    /\ bj_state' = [bj_state EXCEPT ![u] = None]
    /\ UNCHANGED <<coins, bj_ending, bj_hist>>

\* A handler that answers and changes nothing.
BjRefuse(op, u, n, res) ==
    /\ reply' = Reply(op, u, Null, n, res, <<0, 0>>)
    /\ UNCHANGED <<coins, bj_state, bj_ending, bj_hist>>

\* !blackjack <bet>, with the deck _new_deck returned.
Blackjack(u, bet, deck) ==
    /\ UNCHANGED <<now, guild_settings, settings_cache, xfer, activity, bj_stolen, dice>>
    /\ IF ~Games_meets_level(u, GAME_MIN_TOTAL)
       THEN BjRefuse("blackjack", u, bet, "level") /\ UNCHANGED bj_sid
       ELSE IF bet <= 0
       THEN BjRefuse("blackjack", u, bet, "bad_bet") /\ UNCHANGED bj_sid
       ELSE IF bj_state[u] # None
       THEN BjRefuse("blackjack", u, bet, "active") /\ UNCHANGED bj_sid
       ELSE IF ~BetCovered(Games_get_balance(coins, u), bet)
       THEN BjRefuse("blackjack", u, bet, "insufficient") /\ UNCHANGED bj_sid
       ELSE LET debited == Games_add_balance(coins, u, -bet)
                d1 == Rest(deck)
                d2 == Rest(d1)
                d3 == Rest(d2)
                player == <<Top(deck), Top(d1)>>
                dealer == <<Top(d2), Top(d3)>>
                st == [bet |-> bet, deck |-> Rest(d3), player |-> player,
                       dealer |-> dealer, sid |-> bj_sid[u] + 1]
                natural == NaturalResult(hand_value(player), hand_value(dealer))
            IN  /\ bj_sid[u] < MaxSessions
                /\ bj_sid' = [bj_sid EXCEPT ![u] = @ + 1]
                /\ IF natural # None
                   THEN BjSettle("blackjack", u, st, debited, bet, natural[1])
                   ELSE /\ coins' = debited
                        /\ bj_state' = [bj_state EXCEPT ![u] = Some(st)]
                        /\ reply' = Reply("blackjack", u, Null, bet, "dealt", <<bet, 0>>)
                        /\ UNCHANGED <<bj_ending, bj_hist>>

\* !hit
Hit(u) ==
    /\ UNCHANGED <<now, guild_settings, settings_cache, xfer, activity, bj_sid,
                   bj_stolen, dice>>
    /\ IF bj_state[u] = None
       THEN BjRefuse("hit", u, 0, "no_hand")
       ELSE LET old == bj_state[u][1]
                st == [old EXCEPT !.player = Append(@, Top(old.deck)),
                                  !.deck = Rest(@)]
            IN  /\ old.deck # <<>>
                /\ IF Bust(hand_value(st.player))
                   THEN BjSettle("hit", u, st, coins, 0, "lose")
                   ELSE /\ bj_state' = [bj_state EXCEPT ![u] = Some(st)]
                        /\ reply' = Reply("hit", u, Null, st.bet, "hit", <<0, 0>>)
                        /\ UNCHANGED <<coins, bj_ending, bj_hist>>

\* !stand
Stand(u) ==
    /\ UNCHANGED <<now, guild_settings, settings_cache, xfer, activity, bj_sid,
                   bj_stolen, dice>>
    /\ IF bj_state[u] = None
       THEN BjRefuse("stand", u, 0, "no_hand")
       ELSE LET old == bj_state[u][1]
                played == dealer_play(old.deck, old.dealer)
                st == [old EXCEPT !.deck = played.deck, !.dealer = played.dealer]
                res == StandResult(hand_value(st.player), hand_value(st.dealer))
            IN  BjSettle("stand", u, st, coins, 0, res)

\* !double
Double(u) ==
    /\ UNCHANGED <<now, guild_settings, settings_cache, xfer, activity, bj_sid,
                   bj_stolen, dice>>
    /\ IF bj_state[u] = None
       THEN BjRefuse("double", u, 0, "no_hand")
       ELSE LET old == bj_state[u][1]
                bet == old.bet
            IN  IF ~BetCovered(Games_get_balance(coins, u), bet)
                THEN BjRefuse("double", u, bet, "insufficient")
                ELSE LET debited == Games_add_balance(coins, u, -bet)
                         out == DoubleOutcome(DoubleDraw(old, bet))
                     IN  /\ old.deck # <<>>
                         /\ BjSettle("double", u, out.st, debited, bet, out.res)

\* !surrender
Surrender(u) ==
    /\ UNCHANGED <<now, guild_settings, settings_cache, xfer, activity, bj_sid,
                   bj_stolen, dice>>
    /\ IF bj_state[u] = None
       THEN BjRefuse("surrender", u, 0, "no_hand")
       ELSE BjSettle("surrender", u, bj_state[u][1], coins, 0, "surrender")

\* _bj_end, run by the handler bj_ending[u][i] when its _bj_show returns: it
\* pops whatever session is stored under the user's key.
BjEnd(u, i) ==
    /\ i \in 1..Len(bj_ending[u])
    /\ LET sid == bj_ending[u][i]
           found == bj_state[u]
       IN  /\ bj_ending' = [bj_ending EXCEPT ![u] = RemoveAt(@, i)]
           /\ bj_state' = [bj_state EXCEPT ![u] = None]
           /\ bj_stolen' =
                 IF found # None /\ found[1].sid # sid
                                 /\ bj_hist[u][found[1].sid].settles = 0
                 THEN [bj_stolen EXCEPT ![u] = @ \cup {found[1].sid}]
                 ELSE bj_stolen
           /\ reply' = Reply("bj_end", u, Null, sid,
                             IF found = None THEN "absent" ELSE "removed", <<0, 0>>)
    /\ UNCHANGED <<now, ledger, activity, bj_sid, bj_hist, dice>>

---------------------------------------------------------------------------
(* cogs/game.py: dice *)

\* Variant: a stake of 5 is permitted too.
DICE_BETS_WithFive == {5, 10, 50, 100}

DICE_BETS == {10, 50, 100}
DiceFaces == 1..6

Digits == <<"0", "1", "2", "3", "4", "5", "6", "7", "8", "9">>
IsDigit(ch) == InSeq(ch, Digits)
DigitValue(ch) == (CHOOSE i \in 1..Len(Digits) : Digits[i] = ch) - 1

RECURSIVE DigitsValue(_)
DigitsValue(s) ==
    IF s = <<>> THEN 0 ELSE DigitsValue(SubSeq(s, 1, Len(s) - 1)) * 10 + DigitValue(s[Len(s)])

AllDigits(s) == s # <<>> /\ \A i \in 1..Len(s) : IsDigit(s[i])

\* Variant: the text is parsed as it was typed, blanks and all.
ParseInt_NoStrip(content) ==
    IF AllDigits(content) THEN Some(DigitsValue(content)) ELSE None

\* int(msg.content.strip()) for texts made of blanks, signs, digits and
\* letters: None stands for ValueError.
ParseInt(content) ==
    LET s == strip(content)
    IN  IF s # <<>> /\ Head(s) \in {"-", "+"}
        THEN IF AllDigits(Tail(s))
             THEN Some(IF Head(s) = "-" THEN -DigitsValue(Tail(s))
                       ELSE DigitsValue(Tail(s)))
             ELSE None
        ELSE IF AllDigits(s) THEN Some(DigitsValue(s)) ELSE None

DiceMatches(face, roll1, roll2) ==
    (IF roll1 = face THEN 1 ELSE 0) + (IF roll2 = face THEN 1 ELSE 0)

\* Variant: the payout is the net gain.
DicePayout_Net(bet, matches) ==
    IF matches = 2 THEN bet * 9 ELSE IF matches = 1 THEN bet * 2 ELSE 0

DicePayout(bet, matches) ==
    IF matches = 2 THEN bet * 10 ELSE IF matches = 1 THEN bet * 3 ELSE 0

\* Variant: the refund writes back the balance the handler read before it
\* took the bet, instead of adding to the stored balance.
DiceCredit_StaleBalance(c, u, bal, amount) == Games_set_balance(c, u, bal)

\* A refund or a payout of a wager whose handler read the balance bal when
\* it was placed: self._add_balance(gid, uid, amount).
DiceCredit(c, u, bal, amount) == Games_add_balance(c, u, amount)

DiceRefuse(u, bet, res) ==
    /\ reply' = Reply("diceroll", u, Null, bet, res, <<0, 0>>)
    /\ UNCHANGED <<coins, dice_wait, dice_placed>>

\* !diceroll <bet> in a channel, up to the await of the prompt.
Diceroll(u, bet, channel) ==
    /\ UNCHANGED <<now, guild_settings, settings_cache, xfer, activity, bj>>
    /\ IF ~Games_meets_level(u, GAME_MIN_TOTAL)
       THEN DiceRefuse(u, bet, "level")
       ELSE IF bet \notin DICE_BETS
       THEN DiceRefuse(u, bet, "bad_bet")
       ELSE LET bal == Games_get_balance(coins, u)
            IN  IF ~BetCovered(bal, bet)
                THEN DiceRefuse(u, bet, "insufficient")
                ELSE /\ dice_placed[u] < MaxWagers
                     /\ dice_placed' = [dice_placed EXCEPT ![u] = @ + 1]
                     /\ coins' = Games_add_balance(coins, u, -bet)
                     /\ dice_wait' = [dice_wait EXCEPT ![u] =
                            Append(@, [bet |-> bet, channel |-> channel, bal |-> bal,
                                       stage |-> "prompt", msg |-> None])]
                     /\ reply' = Reply("diceroll", u, Null, bet, "placed", <<bet, 0>>)

\* The prompt has been sent: the handler registers its wait_for listener.
DiceListen(u, i) ==
    /\ i \in 1..Len(dice_wait[u])
    /\ dice_wait[u][i].stage = "prompt"
    /\ dice_wait' = [dice_wait EXCEPT ![u][i].stage = "waiting"]
    /\ reply' = NoReply
    /\ UNCHANGED <<now, ledger, activity, bj, dice_placed>>

\* Variant: the listener accepts the messages of its user in any channel.
DiceCheck_AnyChannel(u, w, author, channel) == author = u

\* Variant: the listener accepts the messages of any member in its channel.
DiceCheck_AnyAuthor(u, w, author, channel) == channel = w.channel

\* The check of the listener of wager w of user u, applied to a message.
DiceCheck(u, w, author, channel) == author = u /\ channel = w.channel

\* A message arrives while handlers are between their debit and their
\* resumption: the dispatcher hands it to every listener whose check accepts
\* it and removes those listeners.  A handler that is still sending its
\* prompt has no listener yet and misses it.
WaitForMessage(author, channel, content) ==
    LET accepts(u, w) == w.stage = "waiting" /\ DiceCheck(u, w, author, channel)
    IN  /\ \E u \in Users : \E i \in 1..Len(dice_wait[u]) :
               dice_wait[u][i].stage \in {"prompt", "waiting"}
        /\ dice_wait' = [u \in Users |->
               [i \in 1..Len(dice_wait[u]) |->
                   IF accepts(u, dice_wait[u][i])
                   THEN [dice_wait[u][i] EXCEPT !.stage = "got", !.msg = Some(content)]
                   ELSE dice_wait[u][i]]]
        /\ reply' = Reply("wait_for", author, Null, 0, channel, <<0, 0, content>>)
        /\ UNCHANGED <<now, ledger, activity, bj, dice_placed>>

\* wait_for raises after 20 seconds without a message: the bet is refunded.
DiceTimeout(u, i) ==
    /\ i \in 1..Len(dice_wait[u])
    /\ dice_wait[u][i].stage = "waiting"
    /\ LET w == dice_wait[u][i]
       IN  /\ coins' = DiceCredit(coins, u, w.bal, w.bet)
           /\ reply' = Reply("dice", u, Null, w.bet, "timeout", <<0, w.bet, w.bal>>)
    /\ dice_wait' = [dice_wait EXCEPT ![u] = RemoveAt(@, i)]
    /\ UNCHANGED <<now, guild_settings, settings_cache, xfer, activity, bj,
                   dice_placed>>

\* The handler resumes with the message it was handed, and rolls.
DiceResume(u, i, roll1, roll2) ==
    /\ i \in 1..Len(dice_wait[u])
    /\ dice_wait[u][i].stage = "got"
    /\ LET w == dice_wait[u][i]
           face == ParseInt(w.msg[1])
       IN  IF face = None
           THEN /\ coins' = DiceCredit(coins, u, w.bal, w.bet)
                /\ reply' = Reply("dice", u, Null, w.bet, "invalid", <<0, w.bet, w.bal>>)
           ELSE IF face[1] < 1 \/ face[1] > 6
           THEN /\ coins' = DiceCredit(coins, u, w.bal, w.bet)
                /\ reply' = Reply("dice", u, Null, w.bet, "range", <<0, w.bet, w.bal>>)
           ELSE LET matches == DiceMatches(face[1], roll1, roll2)
                    payout == DicePayout(w.bet, matches)
                IN  /\ coins' = IF matches > 0
                                THEN DiceCredit(coins, u, w.bal, payout)
                                ELSE coins
                    /\ reply' = Reply("dice", u, Null, w.bet, "rolled",
                                      <<0, payout, w.bal, roll1, roll2>>)
    /\ dice_wait' = [dice_wait EXCEPT ![u] = RemoveAt(@, i)]
    /\ UNCHANGED <<now, guild_settings, settings_cache, xfer, activity, bj,
                   dice_placed>>

---------------------------------------------------------------------------
Init ==
    /\ now = StartTime
    /\ coins = [u \in Users |-> [balance |-> 0, last_claim |-> 0]]
    /\ guild_settings = [cooldown_seconds |-> None, claim_reward |-> None,
                         claim_cooldown |-> None, currency_symbol |-> None]
    /\ settings_cache = None
    /\ reply = NoReply
    /\ xfer = [debited |-> 0, credited |-> 0]
    /\ message_counts = [u \in Users |-> 0]
    /\ adjusted_files = [u \in Users |-> None]
    /\ last_increment = [u \in Users |-> None]
    /\ cooldown_cache = None
    /\ member_roles = [u \in Users |-> {Everyone}]
    /\ guild_roles = LevelNames \cup {Everyone}
    /\ ensured = [u \in Users |-> None]
    /\ prev_msg = [u \in Users |-> None]
    /\ bj_state = [u \in Users |-> None]
    /\ bj_ending = [u \in Users |-> <<>>]
    /\ bj_sid = [u \in Users |-> 0]
    /\ bj_hist = [u \in Users |-> [s \in 1..MaxSessions |->
                                       [settles |-> 0, credits |-> 0]]]
    /\ bj_stolen = [u \in Users |-> {}]
    /\ dice_wait = [u \in Users |-> <<>>]
    /\ dice_placed = [u \in Users |-> 0]

\* The transfer commands, with claims at one instant and default settings.
XferNext ==
    \/ \E u \in Users : Claim(u)
    \/ \E s \in Users, m \in Members, a \in Amounts, f \in WriteFaults :
          Sharecoins(s, m, a, f)
    \/ \E m \in Members, a \in Amounts : Givecoins(m, a)
    \/ \E m \in Members, a \in Amounts : Takecoins(m, a)

SpecXfer == Init /\ [][XferNext]_vars

\* Claims over time, under every setting an admin can configure.
ClaimNext ==
    \/ Tick(ClaimInstants)
    \/ \E u \in Users : Claim(u)
    \/ \E v \in CfgRewards : Claimcfg("reward", v, "none")
    \/ \E v \in CfgCooldowns : Claimcfg("cooldown", v, "none")

SpecClaim == Init /\ [][ClaimNext]_vars

\* Message counting over time, under every cooldown an admin can configure.
MsgNext ==
    \/ Tick(MsgInstants)
    \/ \E a \in Members, t \in MsgInstants, c \in Contents :
          OnMessage(a, t, c, "none")
    \/ \E v \in LvCooldowns : LvCooldown(v)

SpecMsg == Init /\ [][MsgNext]_vars

\* Levels: totals pinned by admins and raised by counted messages of one
\* member, the roles reconciled by !lv_set, !lv and on_message under every
\* outcome of the role calls, and the directory of roles edited by admins.
LvNext ==
    \/ Tick(LvInstants)
    \/ \E a \in Players, f \in LvFaults : OnMessage(a, now, <<"x", "x", "x">>, f)
    \/ \E m \in Players, t \in LvTargets, f \in LvFaults : LvSet(m, t, f)
    \/ \E c \in LvCallers, m \in Players, f \in LvFaults : Lv(c[1], m, c[2], f)
    \/ \E a \in Users, m \in Players : LvGet(a, m)
    \/ \E r \in EditedRoles : RoleDeleted(r)
    \/ \E r \in EditedRoles : RoleCreated(r)

SpecLv == Init /\ [][LvNext]_vars

\* The level resolvers on totals around every threshold: a player whose
\* file holds such a total asks for the breakdown and the level, is
\* counted, and tries the gate of the games.
TierInit ==
    \E t \in TierTotals :
        /\ now = StartTime
        /\ coins = [u \in Users |-> [balance |-> 0, last_claim |-> 0]]
        /\ guild_settings = [cooldown_seconds |-> None, claim_reward |-> None,
                             claim_cooldown |-> None, currency_symbol |-> None]
        /\ settings_cache = None
        /\ reply = NoReply
        /\ xfer = [debited |-> 0, credited |-> 0]
        /\ message_counts = [u \in Users |-> 0]
        /\ adjusted_files = [u \in Users |-> IF u \in Players THEN Some(t) ELSE None]
        /\ last_increment = [u \in Users |-> None]
        /\ cooldown_cache = None
        /\ member_roles = [u \in Users |-> {Everyone}]
        /\ guild_roles = LevelNames \cup {Everyone}
        /\ ensured = [u \in Users |-> None]
        /\ prev_msg = [u \in Users |-> None]
        /\ bj_state = [u \in Users |-> None]
        /\ bj_ending = [u \in Users |-> <<>>]
        /\ bj_sid = [u \in Users |-> 0]
        /\ bj_hist = [u \in Users |-> [s \in 1..MaxSessions |->
                                           [settles |-> 0, credits |-> 0]]]
        /\ bj_stolen = [u \in Users |-> {}]
        /\ dice_wait = [u \in Users |-> <<>>]
        /\ dice_placed = [u \in Users |-> 0]

TierNext ==
    \/ Tick(LvInstants)
    \/ \E a \in Users, m \in Players : LvGet(a, m)
    \/ \E m \in Players : Lv(m, m, FALSE, "none")
    \/ \E a \in Players : OnMessage(a, now, <<"x", "x", "x">>, "none")
    \/ \E u \in Players, b \in BjBets, d \in FewShuffles : Blackjack(u, b, d)

SpecTier == TierInit /\ [][TierNext]_vars

\* Blackjack, by members an admin has funded and raised to LV2.
BjNext ==
    \/ \E m \in Players : LvSet(m, GAME_MIN_TOTAL, "none")
    \/ \E m \in Players, a \in BjFunds : Givecoins(m, a)
    \/ \E u \in Players, b \in BjBets, d \in Shuffles : Blackjack(u, b, d)
    \/ \E u \in Players : Hit(u)
    \/ \E u \in Players : Stand(u)
    \/ \E u \in Players : Double(u)
    \/ \E u \in Players : Surrender(u)
    \/ \E u \in Players, i \in 1..MaxInflight : BjEnd(u, i)

SpecBJ == Init /\ [][BjNext]_vars

\* The composition: every command that touches the ledger, the counted
\* message and the handlers of both games, interleaved at one instant.
Plays(u) == bj_sid[u] + dice_placed[u]

\* Blackjack as in SpecBJ, from the first start of a player to the end of
\* the MaxPlays-th hand: a start is tried while the player has hands left
\* to start or has one stored.
StartNext ==
    \/ \E m \in Players : LvSet(m, GAME_MIN_TOTAL, "none")
    \/ \E m \in Players, a \in BjFunds : Givecoins(m, a)
    \/ \E u \in Players, b \in BjBets, d \in Shuffles :
          (Plays(u) < MaxPlays \/ bj_state[u] # None) /\ Blackjack(u, b, d)
    \/ \E u \in Players : Hit(u)
    \/ \E u \in Players : Stand(u)
    \/ \E u \in Players : Double(u)
    \/ \E u \in Players : Surrender(u)
    \/ \E u \in Players, i \in 1..MaxInflight : BjEnd(u, i)

SpecStart == Init /\ [][StartNext]_vars

\* Bets typed on !blackjack and balances the players start with, in the
\* specification of the hands: a bet of 1, the even bet and the odd bet;
\* balances that cover a bet once, and twice.
HandBets == {1, 10, 11}
HandFunds == {11, 22}

\* The first cards dealt by the shuffles of that specification: player,
\* player, dealer, dealer, then the draws.
HandTops ==
    { \* 19 against 17; the next card is a king
      << <<"10", "S">>, <<"9", "S">>, <<"10", "H">>, <<"7", "S">>, <<"K", "S">> >>,
      \* a natural for the player only
      << <<"A", "S">>, <<"K", "S">>, <<"9", "S">>, <<"8", "S">> >>,
      \* a natural for the dealer only
      << <<"10", "S">>, <<"9", "S">>, <<"A", "H">>, <<"K", "H">> >>,
      \* two naturals
      << <<"A", "S">>, <<"K", "S">>, <<"A", "H">>, <<"K", "H">> >>,
      \* 17 against 17; the next card is a two
      << <<"9", "S">>, <<"8", "S">>, <<"10", "S">>, <<"7", "S">>, <<"2", "S">> >>,
      \* 17 against 16; the dealer draws a five
      << <<"10", "S">>, <<"7", "S">>, <<"10", "H">>, <<"6", "S">>, <<"5", "S">> >>,
      \* 19 against 16; a king is next, then a queen: whoever draws is over 21
      << <<"10", "S">>, <<"9", "S">>, <<"10", "H">>, <<"6", "S">>, <<"K", "S">>,
         <<"Q", "S">> >>,
      \* 18 against a soft 17; a four is next
      << <<"10", "S">>, <<"8", "S">>, <<"A", "H">>, <<"6", "S">>, <<"4", "S">> >>,
      \* 15 against 17; a two is next
      << <<"9", "S">>, <<"6", "S">>, <<"10", "S">>, <<"7", "S">>, <<"2", "S">> >>,
      \* 11 against 19; a two is next
      << <<"5", "S">>, <<"6", "S">>, <<"10", "S">>, <<"9", "S">>, <<"2", "S">> >>,
      \* 20 against 5; the dealer draws a four, a five and a six
      << <<"10", "S">>, <<"10", "H">>, <<"2", "S">>, <<"3", "S">>, <<"4", "S">>,
         <<"5", "S">>, <<"6", "S">> >> }

HandShuffles == {DeckWithTop(top) : top \in HandTops}

\* The hands of a player who is at LV2 and holds coins: the total was pinned
\* by !lv_set and the balance granted by !givecoins.
HandInit ==
    \E f \in HandFunds :
        /\ now = StartTime
        /\ coins = [u \in Users |->
                       [balance |-> IF u \in Players THEN f ELSE 0, last_claim |-> 0]]
        /\ guild_settings = [cooldown_seconds |-> None, claim_reward |-> None,
                             claim_cooldown |-> None, currency_symbol |-> None]
        /\ settings_cache = None
        /\ reply = NoReply
        /\ xfer = [debited |-> 0, credited |-> 0]
        /\ message_counts = [u \in Users |-> 0]
        /\ adjusted_files = [u \in Users |->
                                IF u \in Players THEN Some(GAME_MIN_TOTAL) ELSE None]
        /\ last_increment = [u \in Users |-> None]
        /\ cooldown_cache = None
        /\ member_roles = [u \in Users |-> {Everyone}]
        /\ guild_roles = LevelNames \cup {Everyone}
        /\ ensured = [u \in Users |-> None]
        /\ prev_msg = [u \in Users |-> None]
        /\ bj_state = [u \in Users |-> None]
        /\ bj_ending = [u \in Users |-> <<>>]
        /\ bj_sid = [u \in Users |-> 0]
        /\ bj_hist = [u \in Users |-> [s \in 1..MaxSessions |->
                                           [settles |-> 0, credits |-> 0]]]
        /\ bj_stolen = [u \in Users |-> {}]
        /\ dice_wait = [u \in Users |-> <<>>]
        /\ dice_placed = [u \in Users |-> 0]

\* The first hand of each player, from its start to the end of the last
\* handler that acts on it; a start is tried again while its session is
\* stored.
HandNext ==
    \/ \E u \in Players, b \in HandBets, d \in HandShuffles :
          (bj_sid[u] = 0 \/ bj_state[u] # None) /\ Blackjack(u, b, d)
    \/ \E u \in Players : Hit(u)
    \/ \E u \in Players : Stand(u)
    \/ \E u \in Players : Double(u)
    \/ \E u \in Players : Surrender(u)
    \/ \E u \in Players, i \in 1..MaxInflight : BjEnd(u, i)

SpecHand == HandInit /\ [][HandNext]_vars

\* Hands with aces: the shuffles that deal three aces, a nine, a king and a
\* five first, in every order, and one that deals the four aces to the
\* player.
AcePool == << <<"A", "S">>, <<"A", "H">>, <<"A", "D">>,
              <<"9", "S">>, <<"K", "S">>, <<"5", "S">> >>

FourAces == << <<"A", "S">>, <<"A", "H">>, <<"2", "S">>, <<"3", "S">>,
               <<"A", "D">>, <<"A", "C">>, <<"9", "S">> >>

AceTops ==
    { [i \in 1..Len(AcePool) |-> AcePool[p[i]]] :
        p \in {q \in [1..Len(AcePool) -> 1..Len(AcePool)] :
                 \A i, j \in 1..Len(AcePool) : q[i] = q[j] => i = j} }
    \cup {FourAces}

AceShuffles == {DeckWithTop(top) : top \in AceTops}

\* The first hand of a player on such a shuffle, with a bet of 1: the
\* values of the hands are computed at the deal, on every hit and while
\* the dealer plays.
ValueNext ==
    \/ \E u \in Players, d \in AceShuffles :
          bj_sid[u] = 0 /\ Blackjack(u, 1, d)
    \/ \E u \in Players : Hit(u)
    \/ \E u \in Players : Stand(u)
    \/ \E u \in Players, i \in 1..MaxInflight : BjEnd(u, i)

SpecValue == HandInit /\ [][ValueNext]_vars

\* Bets typed on !diceroll and balances the players start with, in the
\* specification of the dice: the permitted stakes and values beside them;
\* balances just below, at and above each stake.
DiceTyped == {-10, 0, 5, 10, 11, 50, 100, 1000}
DiceFunds == {0, 9, 10, 49, 50, 99, 100, 150}

\* The wagers of a player who holds coins and is below LV2, or was raised to
\* it by !lv_set.
DiceInit ==
    \E f \in DiceFunds, t \in {None, Some(GAME_MIN_TOTAL)} :
        /\ now = StartTime
        /\ coins = [u \in Users |->
                       [balance |-> IF u \in Players THEN f ELSE 0, last_claim |-> 0]]
        /\ guild_settings = [cooldown_seconds |-> None, claim_reward |-> None,
                             claim_cooldown |-> None, currency_symbol |-> None]
        /\ settings_cache = None
        /\ reply = NoReply
        /\ xfer = [debited |-> 0, credited |-> 0]
        /\ message_counts = [u \in Users |-> 0]
        /\ adjusted_files = [u \in Users |-> IF u \in Players THEN t ELSE None]
        /\ last_increment = [u \in Users |-> None]
        /\ cooldown_cache = None
        /\ member_roles = [u \in Users |-> {Everyone}]
        /\ guild_roles = LevelNames \cup {Everyone}
        /\ ensured = [u \in Users |-> None]
        /\ prev_msg = [u \in Users |-> None]
        /\ bj_state = [u \in Users |-> None]
        /\ bj_ending = [u \in Users |-> <<>>]
        /\ bj_sid = [u \in Users |-> 0]
        /\ bj_hist = [u \in Users |-> [s \in 1..MaxSessions |->
                                           [settles |-> 0, credits |-> 0]]]
        /\ bj_stolen = [u \in Users |-> {}]
        /\ dice_wait = [u \in Users |-> <<>>]
        /\ dice_placed = [u \in Users |-> 0]

DiceNext ==
    \/ \E u \in Players, b \in DiceTyped : Diceroll(u, b, "c1")
    \/ \E u \in Players, i \in 1..MaxWagers : DiceListen(u, i)
    \/ \E u \in Players, c \in FewTexts : WaitForMessage(u, "c1", c)
    \/ \E u \in Players, i \in 1..MaxWagers : DiceTimeout(u, i)
    \/ \E u \in Players, i \in 1..MaxWagers, r \in FewRolls :
          DiceResume(u, i, r[1], r[2])

SpecDice == DiceInit /\ [][DiceNext]_vars

\* The replies typed to a dice prompt and the dice thrown, in the
\* specification of the resolutions: faces at both ends of the range and
\* inside it, one with blanks around it, numbers just outside the range, a
\* negative number, a number of two digits, a word and an empty text; every
\* pair of dice.
RollBets == {10, 50}
RollTexts == { <<"1">>, <<"3">>, <<"6">>, <<" ", "4", " ">>, <<"0">>, <<"7">>,
               <<"-", "3">>, <<"1", "0">>, <<"x">>, <<>> }
RollDice == DiceFaces \X DiceFaces

\* Wagers placed one after the other, each from its placement to its
\* resolution: by a reply, valid or not, or by the timeout.
RollNext ==
    \/ \E u \in Players, b \in RollBets :
          dice_wait[u] = <<>> /\ Diceroll(u, b, "c1")
    \/ \E u \in Players, i \in 1..MaxWagers : DiceListen(u, i)
    \/ \E u \in Players, c \in RollTexts : WaitForMessage(u, "c1", c)
    \/ \E u \in Players, i \in 1..MaxWagers : DiceTimeout(u, i)
    \/ \E u \in Players, i \in 1..MaxWagers, r \in RollDice :
          DiceResume(u, i, r[1], r[2])

SpecRoll == DiceInit /\ [][RollNext]_vars

\* Two members at LV2 who hold the coins funds gives them, no hand dealt and
\* no wager placed.
GameInit(funds) ==
    /\ now = StartTime
    /\ coins = [u \in Users |-> [balance |-> funds[u], last_claim |-> 0]]
    /\ guild_settings = [cooldown_seconds |-> None, claim_reward |-> None,
                         claim_cooldown |-> None, currency_symbol |-> None]
    /\ settings_cache = None
    /\ reply = NoReply
    /\ xfer = [debited |-> 0, credited |-> 0]
    /\ message_counts = [u \in Users |-> 0]
    /\ adjusted_files = [u \in Users |-> Some(GAME_MIN_TOTAL)]
    /\ last_increment = [u \in Users |-> None]
    /\ cooldown_cache = None
    /\ member_roles = [u \in Users |-> {Everyone}]
    /\ guild_roles = LevelNames \cup {Everyone}
    /\ ensured = [u \in Users |-> None]
    /\ prev_msg = [u \in Users |-> None]
    /\ bj_state = [u \in Users |-> None]
    /\ bj_ending = [u \in Users |-> <<>>]
    /\ bj_sid = [u \in Users |-> 0]
    /\ bj_hist = [u \in Users |-> [s \in 1..MaxSessions |->
                                       [settles |-> 0, credits |-> 0]]]
    /\ bj_stolen = [u \in Users |-> {}]
    /\ dice_wait = [u \in Users |-> <<>>]
    /\ dice_placed = [u \in Users |-> 0]

\* Both members hold coins for two wagers of the lowest stake, in the two
\* channels of the guild; what they type there, and the dice.
Channels == {"c1", "c2"}
ListenInit == GameInit([u \in Users |-> 20])

\* The wagers of both members, which may overlap, and the messages either of
\* them sends in either channel while wagers are pending.
ListenNext ==
    \/ \E u \in Users, ch \in Channels :
          /\ Len(dice_wait[u]) < 2
          /\ \A v \in Users \ {u} : dice_placed[v] <= 1
          /\ Diceroll(u, 10, ch)
    \/ \E u \in Users, i \in 1..MaxWagers : DiceListen(u, i)
    \/ \E a \in Users, ch \in Channels, c \in FewTexts : WaitForMessage(a, ch, c)
    \/ \E u \in Users, i \in 1..MaxWagers : DiceTimeout(u, i)
    \/ \E u \in Users, i \in 1..MaxWagers, r \in FewRolls :
          DiceResume(u, i, r[1], r[2])

SpecListen == ListenInit /\ [][ListenNext]_vars

\* The handler of a wager of u is suspended: it sends its prompt or it waits
\* for the reply.
Awaiting(u) ==
    \E i \in 1..Len(dice_wait[u]) : dice_wait[u][i].stage \in {"prompt", "waiting"}

\* One member with the coins of one wager and another with none, who claims
\* and then transfers, writes, plays blackjack and wagers while the handler
\* of the wager of the first is suspended; the moves are those on a hand no
\* handler has settled yet.
BusyInit == GameInit([u \in Users |-> IF u \in Players THEN 10 ELSE 0])

BusyNext ==
    \/ \E u \in Players : dice_placed[u] = 0 /\ Diceroll(u, 10, "c1")
    \/ \E u \in Users, i \in 1..MaxWagers : DiceListen(u, i)
    \/ \E a \in Users : WaitForMessage(a, "c1", <<"3">>)
    \/ \E u \in Users, i \in 1..MaxWagers : DiceTimeout(u, i)
    \/ \E u \in Users, i \in 1..MaxWagers, r \in FewRolls :
          DiceResume(u, i, r[1], r[2])
    \/ \E u \in Players, v \in Users \ Players : Awaiting(u) /\ Claim(v)
    \/ \E u \in Players, v \in Users \ Players, m \in Users, a \in Stakes :
          Awaiting(u) /\ Sharecoins(v, m, a, "none")
    \/ \E u \in Players, v \in Users \ Players :
          Awaiting(u) /\ OnMessage(v, now, <<"x", "x", "x">>, "none")
    \/ \E u \in Players, v \in Users \ Players, d \in FewShuffles :
          Awaiting(u) /\ bj_sid[v] = 0 /\ Blackjack(v, 10, d)
    \/ \E u \in Players, v \in Users \ Players :
          Awaiting(u) /\ bj_ending[v] = <<>> /\ Hit(v)
    \/ \E u \in Players, v \in Users \ Players :
          Awaiting(u) /\ bj_ending[v] = <<>> /\ Stand(v)
    \/ \E u \in Players, v \in Users \ Players :
          Awaiting(u) /\ bj_ending[v] = <<>> /\ Double(v)
    \/ \E u \in Players, v \in Users \ Players :
          Awaiting(u) /\ bj_ending[v] = <<>> /\ Surrender(v)
    \/ \E u \in Players, v \in Users \ Players :
          Awaiting(u) /\ dice_placed[v] = 0 /\ Diceroll(v, 10, "c1")
    \/ \E v \in Users \ Players, i \in 1..MaxInflight : BjEnd(v, i)

SpecBusy == BusyInit /\ [][BusyNext]_vars

\* Symbols typed by admins on !currency: one character, the same between
\* blanks, blanks only, and none (the current symbol is shown).
CfgSymbols == { None, Some(<<"$">>), Some(<<" ", "$", " ">>), Some(<<" ">>) }

\* The settings of the economy: reads by claims and by the commands that
\* show them, writes of each field that succeed or fail, a reconnection, and
\* the message cooldown, which is kept in another column of the same row.
CfgNext ==
    \/ \E u \in Players : Claim(u)
    \/ \E v \in CfgRewards \cup {DEFAULT_REWARD}, f \in CfgFaults : Claimcfg("reward", v, f)
    \/ \E v \in CfgCooldowns, f \in CfgFaults : Claimcfg("cooldown", v, f)
    \/ Claimcfg("show", 0, "none")
    \/ \E y \in CfgSymbols, f \in CfgFaults : Currency(y, f)
    \/ CoinsOnReady
    \/ \E v \in LvCooldowns : LvCooldown(v)

SpecCfg == Init /\ [][CfgNext]_vars

\* Totals pinned by !lv_set just below and at the threshold of the games,
\* and bets typed on !blackjack and !diceroll, valid and not.
GateTotals == {GAME_MIN_TOTAL - 1, GAME_MIN_TOTAL}
GateBets == {0, 5, 10}

\* Members who hold coins, whose totals admins move across the threshold of
\* the games and who raise them with counted messages, while they start
\* hands and wagers and play the hands they were dealt.
GateNext ==
    \/ \E m \in Players, t \in GateTotals : LvSet(m, t, "none")
    \/ \E a \in Players : OnMessage(a, now, <<"x", "x", "x">>, "none")
    \/ \E u \in Players, b \in GateBets, d \in FewShuffles :
          (bj_sid[u] = 0 \/ bj_state[u] # None \/ ~Games_meets_level(u, GAME_MIN_TOTAL))
          /\ Blackjack(u, b, d)
    \/ \E u \in Players : bj_ending[u] = <<>> /\ Hit(u)
    \/ \E u \in Players : bj_ending[u] = <<>> /\ Stand(u)
    \/ \E u \in Players : bj_ending[u] = <<>> /\ Double(u)
    \/ \E u \in Players : bj_ending[u] = <<>> /\ Surrender(u)
    \/ \E u \in Players, i \in 1..MaxInflight : BjEnd(u, i)
    \/ \E u \in Players, b \in GateBets :
          (dice_placed[u] = 0 \/ ~Games_meets_level(u, GAME_MIN_TOTAL))
          /\ Diceroll(u, b, "c1")
    \/ \E u \in Players, i \in 1..MaxWagers : DiceListen(u, i)
    \/ \E u \in Players : WaitForMessage(u, "c1", <<"3">>)
    \/ \E u \in Players, i \in 1..MaxWagers : DiceTimeout(u, i)
    \/ \E u \in Players, i \in 1..MaxWagers, r \in FewRolls :
          DiceResume(u, i, r[1], r[2])

SpecGate == ListenInit /\ [][GateNext]_vars

\* What the program stores: the tables, the files, the caches, the roles,
\* the sessions and the suspended handlers.
stored == <<coins, guild_settings, settings_cache, message_counts, adjusted_files,
            last_increment, cooldown_cache, member_roles, guild_roles, bj_state,
            bj_ending, dice_wait>>

\* The step changed something the program stores.
Effective == stored' # stored

\* A command that is refused changes nothing but its answer; the composition
\* follows the steps that change the stored state.  Like grants, transfers
\* are taken while they leave the receiver within MaxSupply, and revocations
\* while the coins in circulation are within it; a total is pinned to the
\* games' threshold while the member is below it.
Next ==
    \/ \E u \in Players : Claim(u) /\ Effective
    \/ \E x \in Users, m \in Users, a \in Stakes :
          coins[m].balance + a <= MaxSupply /\ Sharecoins(x, m, a, "none") /\ Effective
    \/ \E m \in Players, a \in Stakes : Givecoins(m, a) /\ Effective
    \/ \E m \in Players, a \in Stakes :
          Supply(coins) <= MaxSupply /\ Takecoins(m, a) /\ Effective
    \/ \E m \in Players :
          get_total_count(m)[1] < GAME_MIN_TOTAL /\ LvSet(m, GAME_MIN_TOTAL, "none")
    \/ \E a \in Players : OnMessage(a, now, <<"x", "x", "x">>, "none") /\ Effective
    \/ \E u \in Players, b \in Stakes, d \in FewShuffles :
          Plays(u) < MaxPlays /\ Blackjack(u, b, d) /\ Effective
    \/ \E u \in Players : Hit(u) /\ Effective
    \/ \E u \in Players : Stand(u) /\ Effective
    \/ \E u \in Players : Double(u) /\ Effective
    \/ \E u \in Players : Surrender(u) /\ Effective
    \/ \E u \in Players, i \in 1..MaxInflight : BjEnd(u, i)
    \/ \E u \in Players, b \in Stakes :
          Plays(u) < MaxPlays /\ Diceroll(u, b, "c1") /\ Effective
    \/ \E u \in Players, i \in 1..MaxWagers : DiceListen(u, i)
    \/ \E u \in Players, c \in FewTexts : WaitForMessage(u, "c1", c)
    \/ \E u \in Players, i \in 1..MaxWagers : DiceTimeout(u, i)
    \/ \E u \in Players, i \in 1..MaxWagers, r \in FewRolls :
          DiceResume(u, i, r[1], r[2])

Spec == Init /\ [][Next]_vars

---------------------------------------------------------------------------
(* Properties of the ledger *)

TransferOk(r) == r.op = "sharecoins" /\ r.res = "ok"

TransferRejected(r) ==
    r.op = "sharecoins" /\ r.res \in {"bad_amount", "bot", "self", "insufficient"}

\* C4: a successful transfer of n from A to B takes exactly n from A and adds
\* exactly n to B, the sum of all balances is unchanged, and a sender who
\* held exactly n is left with 0.
C4_TransferExact ==
    [][TransferOk(reply') =>
         LET a == reply'.user
             b == reply'.member
             n == reply'.n
         IN  /\ coins'[a].balance = coins[a].balance - n
             /\ coins'[b].balance = coins[b].balance + n
             /\ Supply(coins') = Supply(coins)
             /\ (coins[a].balance = n => coins'[a].balance = 0)]_vars

\* A transfer of the sender's whole balance has just succeeded.
C4_Witness ==
    /\ TransferOk(reply)
    /\ coins[reply.user].balance = 0
    /\ coins[reply.member].balance > reply.n

\* C5: a transfer with amount <= 0, to oneself, to a bot, or of more than the
\* sender holds is rejected, and the coins table (every balance and every
\* last_claim) is left as it was.
C5_TransferRejects ==
    [][(/\ reply'.op = "sharecoins"
        /\ \/ reply'.n <= 0
           \/ reply'.member = reply'.user
           \/ reply'.member = BotMember
           \/ coins[reply'.user].balance < reply'.n)
       => (TransferRejected(reply') /\ coins' = coins)]_vars

\* A transfer was rejected for insufficient funds between two users who have
\* both claimed, the sender holding coins.
C5_Witness ==
    /\ reply.op = "sharecoins" /\ reply.res = "insufficient"
    /\ coins[reply.user].balance > 0
    /\ coins[reply.user].last_claim # 0
    /\ coins[reply.member].last_claim # 0

\* C6: in every state, what the last transfer debited from its sender it
\* also credited to its receiver (debit and credit are one atomic unit, also
\* when the credit write fails).
C6_DebitNeverWithoutCredit == xfer.debited = xfer.credited

Secs(hms) == hms[1] * 3600 + hms[2] * 60 + hms[3]

\* C8: a claim by a user who never claimed, or whose last claim is at least
\* the configured cooldown ago, adds exactly the configured reward and stores
\* the current time; any other claim is answered with the remaining time
\* cooldown - (now - last_claim) > 0 and changes no row.
C8_ClaimContract ==
    [][reply'.op = "claim" =>
         LET u == reply'.user
             last == coins[u].last_claim
             cfg == get_settings_db
         IN  IF last = 0 \/ now - last >= cfg.cooldown
             THEN /\ reply'.res = "claimed"
                  /\ coins'[u].balance = coins[u].balance + cfg.reward
                  /\ coins'[u].last_claim = now
                  /\ \A v \in Users \ {u} : coins'[v] = coins[v]
             ELSE /\ reply'.res = "cooling"
                  /\ Secs(reply'.val) = cfg.cooldown - (now - last)
                  /\ Secs(reply'.val) > 0
                  /\ coins' = coins]_vars

\* A claim was refused part-way through a configured cooldown, and the same
\* user holds the reward of an earlier claim.
C8_Witness ==
    /\ reply.op = "claim" /\ reply.res = "cooling"
    /\ coins[reply.user].last_claim # 0
    /\ now > coins[reply.user].last_claim
    /\ coins[reply.user].balance > 0

SecondClaimAtOnce ==
    /\ reply.op = "claim" /\ reply.res = "claimed"
    /\ reply'.op = "claim" /\ reply'.user = reply.user
    /\ now' = now

\* C9 as stated: for every configured cooldown, a second claim at the same
\* instant as a successful one is refused with remaining = cooldown and
\* grants nothing.
C9_SecondClaimRefused_AnyCooldown ==
    [][SecondClaimAtOnce =>
         /\ reply'.res = "cooling"
         /\ Secs(reply'.val) = get_settings_db.cooldown
         /\ coins' = coins]_vars

\* C9, amended: the same for every configured cooldown > 0.
C9_SecondClaimRefused ==
    [][(SecondClaimAtOnce /\ get_settings_db.cooldown > 0) =>
         /\ reply'.res = "cooling"
         /\ Secs(reply'.val) = get_settings_db.cooldown
         /\ coins' = coins]_vars

\* A claim was refused at the instant of the user's successful claim, under
\* a cooldown an admin configured.
C9_Witness ==
    /\ reply.op = "claim" /\ reply.res = "cooling"
    /\ coins[reply.user].last_claim = now
    /\ guild_settings.claim_cooldown # None
    /\ Secs(reply.val) = guild_settings.claim_cooldown[1]

---------------------------------------------------------------------------
(* Properties of the activity counter *)

\* The step just taken handled a message long enough to count, from a user.
CountableMsg(r) == r.op = "message" /\ r.res \in {"cooling", "counted"}

\* C10: for one user and one effective cooldown c, of two countable messages
\* whose arrival times differ by less than c exactly one increments live,
\* and two whose arrival times differ by at least c both increment it.
\* Stated for a message handled next after a counted message of the same
\* user that arrived no later: it is counted exactly if it arrived at least
\* c after that message.
C10_TwoMessages ==
    [][\A u \in Users :
          (/\ CountableMsg(reply') /\ reply'.user = u
           /\ prev_msg[u] # None
           /\ prev_msg[u][1].counted
           /\ prev_msg[u][1].cd = get_cooldown
           /\ prev_msg'[u][1].arrived >= prev_msg[u][1].arrived)
          => IF prev_msg'[u][1].arrived - prev_msg[u][1].arrived < get_cooldown
             THEN /\ reply'.res = "cooling"
                  /\ message_counts'[u] = message_counts[u]
             ELSE /\ reply'.res = "counted"
                  /\ message_counts'[u] = message_counts[u] + 1]_vars

---------------------------------------------------------------------------
(* Properties of the blackjack sessions *)

\* C2: every blackjack session is settled at most once: the ledger receives
\* at most one settlement credit (win, blackjack, push or surrender payout)
\* for a session, however the user's handlers interleave.
C2_SettledAtMostOnce ==
    \A u \in Users : \A s \in 1..MaxSessions : bj_hist[u][s].credits <= 1

\* C3: the teardown of a handler that settled an earlier hand never removes
\* a session created by a later start, so that no session whose stake was
\* debited disappears without a settlement.
C3_TeardownOwnSession == \A u \in Users : bj_stolen[u] = {}

---------------------------------------------------------------------------
(* Properties of the composition *)

\* C1: the stored balance of every user is >= 0 in every reachable state,
\* whatever the sequence and interleaving of grants, revocations, claims,
\* transfers, blackjack handlers and dice handlers.
C1_BalanceNonNegative == \A u \in Users : coins[u].balance >= 0

\* A wager has just taken a user's whole balance.
C1_Witness ==
    /\ reply.op \in {"blackjack", "double", "diceroll"}
    /\ reply.val[1] > 0
    /\ coins[reply.user].balance = 0

\* What the step that answered r set out to add to the balance of u.
LedgerDelta(r, u) ==
    CASE r.op = "claim" /\ r.res = "claimed" /\ r.user = u -> r.n
      [] r.op = "sharecoins" /\ r.res = "ok" /\ r.user = u -> -r.n
      [] r.op = "sharecoins" /\ r.res = "ok" /\ r.member = u -> r.n
      [] r.op = "givecoins" /\ r.res = "ok" /\ r.member = u -> r.n
      [] r.op = "takecoins" /\ r.res = "ok" /\ r.member = u -> -r.n
      [] r.op \in {"blackjack", "hit", "stand", "double", "surrender",
                   "diceroll", "dice"} /\ r.user = u -> r.val[2] - r.val[1]
      [] OTHER -> 0

\* What the step that answered r set out to add to the live count of u.
CountDelta(r, u) ==
    IF r.op = "message" /\ r.res = "counted" /\ r.user = u THEN 1 ELSE 0

\* C7: no update is lost.  Every step of every handler, also of one that
\* resumes after other handlers ran, changes each balance and each count by
\* what it set out to add to the value stored at that moment, so that the
\* final values are those of applying the mutations one after another; and
\* a claim is rewarded only if none was rewarded within the cooldown before.
C7_NoLostUpdate ==
    [][/\ \A u \in Users :
            /\ coins'[u].balance = Max(0, coins[u].balance + LedgerDelta(reply', u))
            /\ message_counts'[u] = message_counts[u] + CountDelta(reply', u)
       /\ (reply'.op = "claim" /\ reply'.res = "claimed"
                               /\ coins[reply'.user].last_claim # 0)
             => now - coins[reply'.user].last_claim >= get_settings.cooldown]_vars

\* A dice refund has just been added to a balance that another handler
\* changed while the wager was pending: the balance is not the one the dice
\* handler read when the wager was placed.
C7_Witness ==
    /\ reply.op = "dice"
    /\ reply.res \in {"timeout", "invalid", "range"}
    /\ coins[reply.user].balance # reply.val[3]


---------------------------------------------------------------------------
(* Properties of on_message *)

\* The time of the last counted message of u, as on_message reads it.
LastCounted(u) == IF last_increment[u] = None THEN 0 ELSE last_increment[u][1]

\* The step handled a message of user u.
HandledMessage(r, u) == r.op = "message" /\ r.user = u

\* The step left the live count and the debounce time of u alone.
MessageNoOp(u) ==
    /\ message_counts'[u] = message_counts[u]
    /\ last_increment'[u] = last_increment[u]

\* The step added exactly 1 to the live count of u and set the debounce time
\* of u to the current time.
MessageCounted(u) ==
    /\ message_counts'[u] = message_counts[u] + 1
    /\ last_increment'[u] = Some(now')

\* C11 as stated, with the length of the content as sent: a message of a
\* user is a no-op when its content has fewer than 3 characters or when
\* now - lastCounted < effective cooldown, and every other message adds
\* exactly 1 to live and sets lastCounted to now.
C11_OnMessage_RawLength ==
    [][\A u \in Users :
          HandledMessage(reply', u)
          => IF \/ Len(reply'.val[2]) < MIN_COUNTABLE_LEN
                \/ now' - LastCounted(u) < get_cooldown
             THEN MessageNoOp(u)
             ELSE MessageCounted(u)]_vars

\* C11: a message of a user is a no-op (live and lastCounted unchanged) when
\* its content, without the blanks around it, has fewer than 3 characters or
\* when now - lastCounted < effective cooldown; every other message of a
\* user adds exactly 1 to live and sets lastCounted to now.  A message of a
\* bot changes no count.
C11_OnMessage ==
    [][/\ \A u \in Users :
             HandledMessage(reply', u)
             => IF \/ Len(strip(reply'.val[2])) < MIN_COUNTABLE_LEN
                   \/ now' - LastCounted(u) < get_cooldown
                THEN MessageNoOp(u)
                ELSE MessageCounted(u)
       /\ (reply'.op = "message" /\ reply'.user = BotMember)
             => /\ message_counts' = message_counts
                /\ last_increment' = last_increment]_vars

\* A user's second message has just been counted, on_message having left
\* alone, in between, a message of at least 3 characters that is too short
\* without its blanks.
C11_Witness ==
    /\ reply.op = "message" /\ reply.res = "short"
    /\ reply.user \in Users
    /\ Len(reply.val[2]) >= MIN_COUNTABLE_LEN
    /\ message_counts[reply.user] >= 2
    /\ last_increment[reply.user] # None


---------------------------------------------------------------------------
(* Properties of the pinned totals *)

\* The step was an accepted !lv_set for member m.
LevelSet(r, m) == r.op = "lv_set" /\ r.member = m /\ r.n >= 0

\* C12: an accepted set-level(m, T) overwrites adjusted with max(0, T - live),
\* whatever adjusted was before; getTotal then returns
\* (live + adjusted, adjusted, live); and a counted message of m raises live
\* and total by 1 and leaves adjusted unchanged.
C12_SetLevelOverwrites ==
    [][\A m \in Users :
          /\ LevelSet(reply', m)
             => LET live == message_counts[m]
                    adjusted == Max(0, reply'.n - live)
                IN  /\ adjusted_files'[m] = Some(adjusted)
                    /\ get_total_count(m)' = <<live + adjusted, adjusted, live>>
          /\ (HandledMessage(reply', m) /\ reply'.res = "counted")
             => /\ get_total_count(m)'[3] = get_total_count(m)[3] + 1
                /\ get_total_count(m)'[1] = get_total_count(m)[1] + 1
                /\ get_total_count(m)'[2] = get_total_count(m)[2]
                /\ adjusted_files'[m] = adjusted_files[m]]_vars

\* A message of a member has just been counted on top of a total that was
\* pinned at 10 when the member had one counted message: adjusted 9, live 2,
\* total 11.
C12_Witness ==
    /\ reply.op = "message" /\ reply.res = "counted"
    /\ reply.user \in Users
    /\ get_total_count(reply.user) = <<11, 9, 2>>

\* C13: immediately after an accepted set-level(m, T), for any T >= 0 and any
\* live count, getTotal(m) reports total = T.
C13_TotalIsTarget ==
    [][\A m \in Users :
          LevelSet(reply', m) => get_total_count(m)'[1] = reply'.n]_vars


---------------------------------------------------------------------------
(* Properties of the level resolvers *)

\* The tier of a total, by the table LVMAX:1000, LV3:100, LV2:10, LV1:0.
TierOf(total) ==
    CASE total >= 1000 -> [name |-> "LVMAX", threshold |-> 1000]
      [] total >= 100 /\ total < 1000 -> [name |-> "LV3", threshold |-> 100]
      [] total >= 10 /\ total < 100 -> [name |-> "LV2", threshold |-> 10]
      [] OTHER -> [name |-> "LV1", threshold |-> 0]

\* C14: for every total >= 0 the resolver returns the tier with the highest
\* threshold <= total among LVMAX:1000, LV3:100, LV2:10, LV1:0; the floor
\* tier matches every total, the result is monotone in the total, and the
\* resolvers of bot.py, cogs/game.py and cogs/utils/levels.py return the
\* same tier name.
C14_Resolve ==
    /\ \A u \in Users :
          LET total == get_total_count(u)[1]
              r == get_target_level(total)
          IN  /\ r = TierOf(total)
              /\ r.threshold <= total
              /\ \A t \in 0..total :
                    /\ get_target_level(t).threshold <= r.threshold
                    /\ get_target_level(t).threshold <= t
              /\ Games_get_total_and_level(u) = <<total, r.name>>
              /\ Levels_get_total_and_level(u) = <<total, r.name>>
    /\ reply.op = "lv_get" => reply.val[4] = TierOf(reply.val[1]).name

\* !lv_get has just reported LVMAX for a total of exactly 1000.
C14_Witness ==
    /\ reply.op = "lv_get"
    /\ reply.val[1] = 1000
    /\ reply.val[4] = "LVMAX"

\* n is what nextThreshold must return for total: the tier with the lowest
\* threshold strictly greater than total, none exactly from 1000 on.
NextThresholdOf(total, n) ==
    /\ n = None <=> total >= 1000
    /\ n # None
       => /\ n[1].threshold > total
          /\ \E i \in 1..Len(LEVELS) : n[1] = LEVELS[i]
          /\ \A i \in 1..Len(LEVELS) :
                LEVELS[i].threshold > total => n[1].threshold <= LEVELS[i].threshold

\* C15: for every total >= 0, nextThreshold(total) is the tier with the
\* lowest threshold strictly greater than total, and none exactly when
\* total >= 1000; so is the one !lv announces after a role change.
C15_NextThreshold ==
    /\ \A u \in Users :
          LET total == get_total_count(u)[1]
          IN  /\ NextThresholdOf(total, get_next_threshold(total))
              /\ \A t \in 0..total : NextThresholdOf(t, get_next_threshold(t))
    /\ (reply.op = "lv" /\ reply.res = "ok" /\ reply.val[5])
          => NextThresholdOf(reply.val[1], reply.val[6])

\* !lv has just announced LVMAX for a total of exactly 1000, with no next
\* threshold, where one message less has LVMAX as its next threshold.
C15_Witness ==
    /\ reply.op = "lv" /\ reply.res = "ok" /\ reply.val[5]
    /\ reply.val[1] = 1000
    /\ reply.val[6] = None
    /\ get_next_threshold(reply.val[1] - 1) = Some([name |-> "LVMAX", threshold |-> 1000])


---------------------------------------------------------------------------
(* Properties of ensure_lv_role *)

\* The level roles of the directory, other than the target, that the member
\* held when the recorded call e was made.
OtherTiersBefore(e) == {r \in (e.before \cap LevelNames) \cap guild_roles : r # e.level}

\* The directory denied the grant or a revocation of the recorded call e:
\* the role call that raised was one the call had to make.
Denied(e) ==
    /\ e.level \in guild_roles
    /\ \/ e.fault \in {"add", "add_http"} /\ e.level \notin e.before
       \/ e.fault \in {"remove", "remove_http"} /\ OtherTiersBefore(e) # {}

\* C16 as stated: a second consecutive call for the same member and level,
\* with no change to the member's roles or the directory in between,
\* returns changed = false.
C16_SecondCallUnchanged_Always ==
    \A m \in Users :
        (ensured[m] # None /\ ensured[m][1].prev # None) => ~ensured[m][1].changed

\* C16: a second consecutive call for the same member and level, with no
\* change to the member's roles or the directory in between, returns
\* changed = false when the first call was not denied: it completed or it
\* reported the missing role.
C16_SecondCallUnchanged ==
    \A m \in Users :
        (ensured[m] # None /\ ensured[m][1].prev \in {Some("ok"), Some("missing")})
        => ~ensured[m][1].changed

\* A second call has just returned changed = false with the success
\* message, after a first call for the same level that completed; the
\* member holds the role.
C16_Witness ==
    \E m \in Users :
        /\ ensured[m] # None
        /\ ensured[m][1].prev = Some("ok")
        /\ ensured[m][1].msg = "ok"
        /\ ~ensured[m][1].changed
        /\ ensured[m][1].level \in member_roles[m]

\* C17: when the target role exists and no grant or revocation is denied,
\* after the call the member holds the target level role and no other level
\* role, and the member's other roles are those held before.
C17_TargetOnly ==
    \A m \in Users :
        (ensured[m] # None /\ ensured[m][1].level \in guild_roles /\ ~Denied(ensured[m][1]))
        => /\ member_roles[m] \cap LevelNames = {ensured[m][1].level}
           /\ member_roles[m] \ LevelNames = ensured[m][1].before \ LevelNames

\* A call has just moved a member from another level role to the target,
\* the member keeping @everyone.
C17_Witness ==
    \E m \in Users :
        /\ ensured[m] # None
        /\ ensured[m][1].msg = "ok"
        /\ OtherTiersBefore(ensured[m][1]) # {}
        /\ ensured[m][1].level \notin ensured[m][1].before
        /\ member_roles[m] = {Everyone, ensured[m][1].level}

\* C18: when the target role is absent from the directory the call returns
\* changed = false with the configuration message and grants and revokes
\* nothing; when the directory denies a grant or a revocation it returns
\* changed = false with the reason of that denial; and in both cases the
\* command that called it goes on to answer with that message.
C18_AbsentOrDenied ==
    \A m \in Users :
        ensured[m] # None
        => LET e == ensured[m][1]
           IN  /\ e.level \notin guild_roles
                  => /\ ~e.changed
                     /\ e.msg = "missing"
                     /\ member_roles[m] = e.before
               /\ Denied(e)
                  => /\ ~e.changed
                     /\ e.msg = IF e.fault \in {"add", "remove"}
                                THEN "forbidden" ELSE "api_error"
               /\ (reply.op \in {"lv", "lv_set"} /\ reply.member = m
                                                 /\ reply.res \notin {"bad_value", "own_only"})
                  => reply.res = e.msg

\* A call has just granted the target and was then denied the revocation of
\* the level role held before: it returned changed = false with the API
\* error message, and !lv_set or !lv answered with it.
C18_Witness ==
    \E m \in Users :
        /\ ensured[m] # None
        /\ Denied(ensured[m][1])
        /\ ensured[m][1].fault = "remove_http"
        /\ ensured[m][1].level \in member_roles[m] \ ensured[m][1].before
        /\ reply.op \in {"lv", "lv_set"} /\ reply.member = m /\ reply.res = "api_error"


---------------------------------------------------------------------------
(* Properties of the start of a blackjack hand *)

\* The answers with which !blackjack refuses to start a hand.
StartRefusals == {"level", "bad_bet", "active", "insufficient"}

\* The step was a !blackjack of user u.
StartBy(r, u) == r.op = "blackjack" /\ r.user = u

\* C19: a start with bet is accepted only when no session exists, bet > 0
\* and balance >= bet; when accepted exactly bet is debited (the balance
\* ends bet lower, plus what a natural settled in the same handler
\* credits) and the new session's tracked bet is bet; when refused because
\* bet <= 0 or balance < bet no balance changes and no session is created.
C19_StartContract ==
    [][\A u \in Users :
          StartBy(reply', u)
          => LET bet == reply'.n
             IN  /\ reply'.res \notin StartRefusals
                    => /\ bj_state[u] = None
                       /\ bet > 0
                       /\ coins[u].balance >= bet
                       /\ reply'.val[1] = bet
                       /\ reply'.res = "dealt" => reply'.val[2] = 0
                       /\ coins'[u].balance = coins[u].balance - bet + reply'.val[2]
                       /\ \A v \in Users \ {u} : coins'[v] = coins[v]
                       /\ bj_state'[u] # None
                       /\ bj_state'[u][1].bet = bet
                       /\ bj_state'[u][1].sid = bj_sid'[u]
                       /\ bj_sid'[u] = bj_sid[u] + 1
                 /\ reply'.res \in {"bad_bet", "insufficient"}
                    => /\ coins' = coins
                       /\ bj_state' = bj_state
                       /\ bj_sid' = bj_sid
                 /\ (bet <= 0 \/ coins[u].balance < bet \/ bj_state[u] # None)
                    => reply'.res \in StartRefusals]_vars

\* A hand has just been dealt: the session tracks the bet typed and the
\* balance is that bet lower than the grant.
C19_Witness ==
    /\ reply.op = "blackjack" /\ reply.res = "dealt"
    /\ reply.user \in Users
    /\ bj_state[reply.user] # None
    /\ bj_state[reply.user][1].bet = reply.n
    /\ reply.val = <<reply.n, 0>>
    /\ \E a \in BjFunds : coins[reply.user].balance = a - reply.n

\* C20: there is never more than one session per user: the session stored
\* for a user is never replaced by another while it exists; a start while a
\* session exists is refused and changes neither a balance nor the session
\* (bet, deck, hands); and hit, stand, double and surrender with no session
\* answer "no active hand", change no balance and create no session.
C20_OneSession ==
    [][\A u \in Users :
          /\ (bj_state[u] # None /\ bj_state'[u] # None)
                => bj_state'[u][1].sid = bj_state[u][1].sid
          /\ (StartBy(reply', u) /\ bj_state[u] # None)
                => /\ reply'.res \in StartRefusals
                   /\ coins' = coins
                   /\ bj_state' = bj_state
                   /\ bj_sid' = bj_sid
          /\ (reply'.op \in {"hit", "stand", "double", "surrender"}
                /\ reply'.user = u /\ bj_state[u] = None)
                => /\ reply'.res = "no_hand"
                   /\ coins' = coins
                   /\ bj_state' = bj_state
                   /\ bj_ending' = bj_ending
                   /\ bj_sid' = bj_sid]_vars

\* A start has just been refused because the user has a hand in progress.
C20_Witness ==
    /\ reply.op = "blackjack" /\ reply.res = "active"
    /\ reply.user \in Users
    /\ bj_state[reply.user] # None
    /\ reply.n > 0
    /\ coins[reply.user].balance >= reply.n

---------------------------------------------------------------------------
(* Properties of the blackjack hands *)

PlayerMoves == {"hit", "stand", "double", "surrender"}

\* The step is a !hit, !stand, !double or !surrender of u that found a
\* session and acted on it.
MoveBy(r, u) ==
    r.op \in PlayerMoves /\ r.user = u /\ r.res \notin {"no_hand", "insufficient"}

\* The step settled a hand of u: it ran _bj_settle.
SettledBy(r, u) ==
    /\ r.user = u
    /\ \/ r.op \in {"stand", "surrender", "double"} /\ MoveBy(r, u)
       \/ r.op = "hit" /\ r.res = "lose"
       \/ r.op = "blackjack" /\ r.res \in {"blackjack", "lose", "push"}

\* C21: a terminal settlement returns the user's session to NONE: once a
\* hand has been settled, no further hit, stand, double or surrender is
\* accepted on it.
C21_SettledIsFinal ==
    [][\A u \in Users :
          MoveBy(reply', u) => bj_hist[u][bj_state[u][1].sid].settles = 0]_vars

\* What the step added to the balance of u beyond taking the stake.
CreditedOver(u, stake) == coins'[u].balance - (coins[u].balance - stake)

\* The step settled the session it leaves stored for u, and its handler has
\* nothing left to do but to remove the session.
HandEnds(u) ==
    /\ bj_state'[u] # None
    /\ bj_hist'[u][bj_state'[u][1].sid].settles =
          bj_hist[u][bj_state'[u][1].sid].settles + 1
    /\ bj_ending'[u] = Append(bj_ending[u], bj_state'[u][1].sid)

\* The step left a session stored for u without settling it, and no handler
\* is about to remove it.
HandGoesOn(u) ==
    /\ bj_state'[u] # None
    /\ bj_hist' = bj_hist
    /\ bj_ending' = bj_ending

\* C22: at an accepted start both hands hold two cards; a player's 21
\* against another dealer value credits floor(bet * 2.5), a dealer's 21
\* against another player value credits nothing, two 21s credit the bet,
\* and these three deals end the session; every other deal credits nothing
\* and leaves the session in progress.
C22_Naturals ==
    [][\A u \in Users :
          (StartBy(reply', u) /\ reply'.res \notin StartRefusals)
          => LET st == bj_state'[u][1]
                 bet == reply'.n
                 pv == hand_value(st.player)
                 dv == hand_value(st.dealer)
                 credit == CreditedOver(u, bet)
             IN  /\ Len(st.player) = 2 /\ Len(st.dealer) = 2
                 /\ st.bet = bet
                 /\ (pv = 21 /\ dv # 21)
                       => /\ 2 * credit <= 5 * bet /\ 5 * bet < 2 * credit + 2
                          /\ HandEnds(u)
                 /\ (dv = 21 /\ pv # 21) => (credit = 0 /\ HandEnds(u))
                 /\ (pv = 21 /\ dv = 21) => (credit = bet /\ HandEnds(u))
                 /\ (pv # 21 /\ dv # 21) => (credit = 0 /\ HandGoesOn(u))]_vars

\* A natural of the player against 17 has just been paid on a bet of 10:
\* the balance is 15 above the one the bet was placed from.
C22_Witness ==
    /\ reply.op = "blackjack" /\ reply.res = "blackjack" /\ reply.n = 10
    /\ reply.val = <<10, 25>>
    /\ \E f \in HandFunds : coins[reply.user].balance = f + 15

\* The session stored for u before and after the step differ by one card
\* that went from the end of the deck to the end of the player's hand.
OneCardToPlayer(u) ==
    LET old == bj_state[u][1]
        st == bj_state'[u][1]
    IN  /\ old.deck # <<>>
        /\ Len(st.deck) = Len(old.deck) - 1
        /\ \A i \in 1..Len(st.deck) : st.deck[i] = old.deck[i]
        /\ Len(st.player) = Len(old.player) + 1
        /\ \A i \in 1..Len(old.player) : st.player[i] = old.player[i]
        /\ st.player[Len(st.player)] = old.deck[Len(old.deck)]
        /\ st.sid = old.sid

\* C23: a hit on a stored session moves exactly one card from the deck to
\* the player's hand and changes no balance; when the new hand value is
\* over 21 the session ends, with nothing credited; otherwise the session
\* stays in progress with the same bet and the same dealer's hand.
C23_Hit ==
    [][\A u \in Users :
          (reply'.op = "hit" /\ reply'.user = u /\ reply'.res # "no_hand")
          => /\ bj_state[u] # None /\ bj_state'[u] # None
             /\ OneCardToPlayer(u)
             /\ bj_state'[u][1].bet = bj_state[u][1].bet
             /\ bj_state'[u][1].dealer = bj_state[u][1].dealer
             /\ coins' = coins
             /\ IF hand_value(bj_state'[u][1].player) > 21
                THEN HandEnds(u)
                ELSE HandGoesOn(u)]_vars

\* A hit on 19 has just drawn a king: the hand is over 21, it was settled
\* once, and the balance is still the stake below the one the hand started
\* from.
C23_Witness ==
    /\ reply.op = "hit" /\ reply.res = "lose"
    /\ bj_state[reply.user] # None
    /\ Len(bj_state[reply.user][1].player) = 3
    /\ hand_value(bj_state[reply.user][1].player) = 29
    /\ bj_hist[reply.user][1].settles = 1
    /\ \E f \in HandFunds : coins[reply.user].balance = f - reply.n

\* The dealer's hand after the step is the one before it followed by the n
\* cards that were at the end of the deck, last card first; the dealer was
\* below 17 before each of these draws, and is not below 17 after them.
DealerDrew(old, st, n) ==
    /\ n <= Len(old.deck)
    /\ Len(st.dealer) = Len(old.dealer) + n
    /\ Len(st.deck) = Len(old.deck) - n
    /\ \A i \in 1..Len(st.deck) : st.deck[i] = old.deck[i]
    /\ \A i \in 1..Len(old.dealer) : st.dealer[i] = old.dealer[i]
    /\ \A j \in 1..n : st.dealer[Len(old.dealer) + j] = old.deck[Len(old.deck) - j + 1]
    /\ \A j \in 0..(n - 1) : hand_value(SubSeq(st.dealer, 1, Len(old.dealer) + j)) < 17
    /\ hand_value(st.dealer) >= 17

\* The credit the comparison of the hands calls for.
ComparedCredit(pv, dv, bet, credit) ==
    /\ (dv > 21 \/ pv > dv) => credit = 2 * bet
    /\ (dv <= 21 /\ pv < dv) => credit = 0
    /\ (dv <= 21 /\ pv = dv) => credit = bet

\* C24: a stand makes the dealer draw exactly while the dealer's hand is
\* below 17, a soft 17 included in "not below"; then a dealer over 21 or a
\* player above the dealer credits 2 * bet, a player below the dealer
\* credits nothing, equal values credit the bet; the player's hand and the
\* bet are unchanged and the session ends.
C24_Stand ==
    [][\A u \in Users :
          (reply'.op = "stand" /\ reply'.user = u /\ reply'.res # "no_hand")
          => /\ bj_state[u] # None /\ bj_state'[u] # None
             /\ LET old == bj_state[u][1]
                    st == bj_state'[u][1]
                IN  /\ \E n \in 0..Len(old.deck) : DealerDrew(old, st, n)
                    /\ st.player = old.player
                    /\ st.bet = old.bet
                    /\ st.sid = old.sid
                    /\ ComparedCredit(hand_value(st.player), hand_value(st.dealer),
                                      old.bet, CreditedOver(u, 0))
             /\ \A v \in Users \ {u} : coins'[v] = coins[v]
             /\ HandEnds(u)]_vars

\* A stand on 20 has just made the dealer draw three cards, from 5 to 20:
\* the stake is back on the balance.
C24_Witness ==
    /\ reply.op = "stand" /\ reply.res = "push"
    /\ bj_state[reply.user] # None
    /\ Len(bj_state[reply.user][1].dealer) = 5
    /\ hand_value(bj_state[reply.user][1].dealer) = 20
    /\ hand_value(bj_state[reply.user][1].player) = 20
    /\ bj_hist[reply.user][1].settles = 1
    /\ coins[reply.user].balance \in HandFunds

\* The step was a !double of u that found a session.
DoubleBy(r, u) == r.op = "double" /\ r.user = u /\ r.res # "no_hand"

\* The player's hand after the step is the one before it followed by the
\* card that was at the end of the deck.
PlayerDrewOne(old, st) ==
    /\ old.deck # <<>>
    /\ st.player = Append(old.player, old.deck[Len(old.deck)])

\* The session as one pop leaves it.
AfterPop(old) == [old EXCEPT !.deck = SubSeq(@, 1, Len(@) - 1)]

\* C25: a double with balance >= bet debits exactly the bet, doubles the
\* tracked bet, draws exactly one player card and ends the session, and
\* pays on the doubled bet: 2 * doubled bet for a win, the doubled bet for
\* a push, nothing for a loss; with balance < bet it is refused and
\* balance, bet, hands and session are unchanged.
C25_Double ==
    [][\A u \in Users :
          DoubleBy(reply', u)
          => /\ bj_state[u] # None
             /\ \A v \in Users \ {u} : coins'[v] = coins[v]
             /\ LET old == bj_state[u][1]
                IN  IF coins[u].balance < old.bet
                    THEN /\ reply'.res = "insufficient"
                         /\ coins' = coins
                         /\ bj_state' = bj_state
                         /\ bj_ending' = bj_ending
                         /\ bj_hist' = bj_hist
                    ELSE /\ reply'.res # "insufficient"
                         /\ bj_state'[u] # None
                         /\ LET st == bj_state'[u][1]
                                pv == hand_value(st.player)
                                dv == hand_value(st.dealer)
                                credit == CreditedOver(u, old.bet)
                            IN  /\ st.bet = 2 * old.bet
                                /\ st.sid = old.sid
                                /\ PlayerDrewOne(old, st)
                                /\ credit \in {0, st.bet, 2 * st.bet}
                                /\ pv > 21 => credit = 0
                                /\ pv <= 21 => ComparedCredit(pv, dv, st.bet, credit)
                         /\ HandEnds(u)]_vars

\* A double on 17 with a bet of 10 has just drawn a two and won against 17:
\* 10 more were taken and 40 credited.
C25_Witness ==
    /\ reply.op = "double" /\ reply.res = "win" /\ reply.n = 20
    /\ bj_state[reply.user] # None
    /\ bj_state[reply.user][1].bet = 20
    /\ hand_value(bj_state[reply.user][1].player) = 19
    /\ hand_value(bj_state[reply.user][1].dealer) = 17
    /\ bj_hist[reply.user][1].settles = 1
    /\ coins[reply.user].balance = 22 - 10 - 10 + 40

\* C26: in a double the player's bust check comes before the dealer's turn:
\* when the card drawn takes the player over 21 the dealer draws no card,
\* nothing is credited and the doubled stake is lost, also when the
\* dealer's next card would have taken the dealer over 21.
C26_BustBeforeDealer ==
    [][\A u \in Users :
          (DoubleBy(reply', u) /\ reply'.res # "insufficient"
             /\ hand_value(Append(bj_state[u][1].player, Top(bj_state[u][1].deck))) > 21)
          => LET old == bj_state[u][1]
                 st == bj_state'[u][1]
             IN  /\ st.dealer = old.dealer
                 /\ st.deck = AfterPop(old).deck
                 /\ st.bet = 2 * old.bet
                 /\ reply'.res = "lose"
                 /\ coins'[u].balance = coins[u].balance - old.bet
                 /\ HandEnds(u)]_vars

\* A double on 19 has just drawn a king; the dealer still holds the two
\* cards of the deal, worth 16, and the card now on top of the deck would
\* have taken the dealer over 21.
C26_Witness ==
    /\ reply.op = "double" /\ reply.res = "lose"
    /\ bj_state[reply.user] # None
    /\ LET st == bj_state[reply.user][1]
       IN  /\ hand_value(st.player) = 29
           /\ Len(st.dealer) = 2
           /\ hand_value(st.dealer) = 16
           /\ hand_value(Append(st.dealer, Top(st.deck))) > 21
           /\ bj_hist[reply.user][st.sid].settles = 1
           /\ \E f \in HandFunds : coins[reply.user].balance = f - st.bet

\* C27: a surrender on a stored session credits exactly floor(bet / 2) of
\* the tracked bet, for every bet >= 1, leaves bet, hands and deck as they
\* were, and ends the session.
C27_Surrender ==
    [][\A u \in Users :
          (reply'.op = "surrender" /\ reply'.user = u /\ reply'.res # "no_hand")
          => /\ bj_state[u] # None
             /\ bj_state[u][1].bet >= 1
             /\ LET bet == bj_state[u][1].bet
                    credit == CreditedOver(u, 0)
                IN  2 * credit <= bet /\ bet < 2 * credit + 2
             /\ \A v \in Users \ {u} : coins'[v] = coins[v]
             /\ bj_state'[u] = bj_state[u]
             /\ HandEnds(u)]_vars

\* A hand with a bet of 11 has just been surrendered, as its first
\* settlement: 5 came back and the balance is 6 below the one the hand
\* started from.
C27_Witness ==
    /\ reply.op = "surrender" /\ reply.n = 11
    /\ reply.val = <<0, 5>>
    /\ bj_hist[reply.user][1].settles = 1
    /\ \E f \in HandFunds : coins[reply.user].balance = f - 6

---------------------------------------------------------------------------
(* Properties of the cards *)

\* The 52 rank-suit cards.
AllCards ==
    {<<r, s>> : r \in {Ranks[i] : i \in 1..Len(Ranks)},
                s \in {Suits[i] : i \in 1..Len(Suits)}}

\* The cards of a session, wherever they are.
CardsOf(st) == st.player \o st.dealer \o st.deck

\* C28: in every stored session, at every point of its lifetime, the
\* player's hand, the dealer's hand and the remaining deck hold no card
\* twice, within or across them, and together hold exactly the 52 distinct
\* rank-suit cards.
C28_FullDeck ==
    \A u \in Users :
        bj_state[u] # None
        => LET all == CardsOf(bj_state[u][1])
           IN  /\ Len(all) = 52
               /\ \A i, j \in 1..Len(all) : all[i] = all[j] => i = j
               /\ {all[i] : i \in 1..Len(all)} = AllCards
               /\ Cardinality(AllCards) = 52

\* A session in which at least eight cards have left the deck: the player
\* holds three or more and the dealer four or more.
C28_Witness ==
    \E u \in Users :
        /\ bj_state[u] # None
        /\ Len(bj_state[u][1].deck) <= 52 - 8
        /\ Len(bj_state[u][1].player) >= 3
        /\ Len(bj_state[u][1].dealer) >= 4

\* A card counted low: an ace as 1, a court card as 10, a number card at
\* its face value.
LowValue(card) ==
    IF card[1] = "A" THEN 1
    ELSE IF card[1] \in {"J", "Q", "K"} THEN 10
    ELSE CHOOSE n \in 2..10 : Ranks[n] = card[1]

RECURSIVE LowTotal(_)
LowTotal(cards) ==
    IF cards = <<>> THEN 0 ELSE LowValue(Head(cards)) + LowTotal(Tail(cards))

\* The totals of a hand, one for each number of aces counted as 11.
Totals(cards) ==
    {LowTotal(cards) + 10 * k :
        k \in 0..Cardinality({i \in 1..Len(cards) : cards[i][1] = "A"})}

\* The greatest total within 21, and the total with every ace low when
\* there is none.
BestTotal(cards) ==
    LET within == {t \in Totals(cards) : t <= 21}
    IN  IF within = {} THEN LowTotal(cards)
        ELSE CHOOSE t \in within : \A x \in within : x <= t

\* C29: hand_value of a hand is the greatest total <= 21 obtainable by
\* counting each ace as 1 or 11, and the total with every ace as 1 when no
\* total is <= 21, for every hand of every stored session; [A,A,9] is 21
\* and [A,A,A,9] is 12.
C29_HandValue ==
    /\ hand_value(<< <<"A", "S">>, <<"A", "H">>, <<"9", "S">> >>) = 21
    /\ hand_value(<< <<"A", "S">>, <<"A", "H">>, <<"A", "D">>, <<"9", "S">> >>) = 12
    /\ \A u \in Users :
          bj_state[u] # None
          => /\ hand_value(bj_state[u][1].player) = BestTotal(bj_state[u][1].player)
             /\ hand_value(bj_state[u][1].dealer) = BestTotal(bj_state[u][1].dealer)

\* A player who was dealt two aces has drawn a third ace and a nine: the
\* hand of four cards is worth 12.
C29_Witness ==
    \E u \in Users :
        /\ bj_state[u] # None
        /\ Len(bj_state[u][1].player) = 4
        /\ \A i \in 1..3 : bj_state[u][1].player[i][1] = "A"
        /\ bj_state[u][1].player[4][1] = "9"
        /\ hand_value(bj_state[u][1].player) = 12

---------------------------------------------------------------------------
(* Properties of the dice wagers *)

\* The step was a !diceroll of u.
PlaceBy(r, u) == r.op = "diceroll" /\ r.user = u

\* C30: a dice wager is rejected, with no balance change and no handler
\* left waiting, unless the bet is one of 10, 50, 100 and the balance is
\* >= the bet; an accepted wager takes exactly the bet from the balance in
\* the step that sends the prompt, before the handler waits for the reply.
C30_Place ==
    [][\A u \in Users :
          PlaceBy(reply', u)
          => LET bet == reply'.n
             IN  /\ (bet \notin {10, 50, 100} \/ coins[u].balance < bet)
                    => reply'.res # "placed"
                 /\ reply'.res # "placed"
                    => /\ coins' = coins
                       /\ dice_wait' = dice_wait
                 /\ reply'.res = "placed"
                    => /\ coins'[u].balance = coins[u].balance - bet
                       /\ \A v \in Users \ {u} : coins'[v] = coins[v]
                       /\ Len(dice_wait'[u]) = Len(dice_wait[u]) + 1
                       /\ dice_wait'[u][Len(dice_wait'[u])].bet = bet
                       /\ dice_wait'[u][Len(dice_wait'[u])].stage = "prompt"
                       /\ \A i \in 1..Len(dice_wait[u]) :
                             dice_wait'[u][i] = dice_wait[u][i]]_vars

\* A wager of 50 has just been accepted from a balance of exactly 50: the
\* balance is 0 and the handler is about to send its prompt.
C30_Witness ==
    /\ reply.op = "diceroll" /\ reply.res = "placed" /\ reply.n = 50
    /\ coins[reply.user].balance = 0
    /\ dice_wait[reply.user] # <<>>
    /\ dice_wait[reply.user][Len(dice_wait[reply.user])].stage = "prompt"
    /\ dice_wait[reply.user][Len(dice_wait[reply.user])].bal = 50

\* The integer each reply of RollTexts denotes for int(), None for a text
\* that denotes none.
Denotes(content) ==
    CASE content = <<"1">> -> Some(1)
      [] content = <<"3">> -> Some(3)
      [] content = <<"6">> -> Some(6)
      [] content = <<" ", "4", " ">> -> Some(4)
      [] content = <<"0">> -> Some(0)
      [] content = <<"7">> -> Some(7)
      [] content = <<"-", "3">> -> Some(-3)
      [] content = <<"1", "0">> -> Some(10)
      [] OTHER -> None

\* The reply handed to a wager names a face of the die.
NamesFace(w) ==
    /\ w.msg # None
    /\ Denotes(w.msg[1]) # None
    /\ Denotes(w.msg[1])[1] \in 1..6

\* The step resolved wager i of u: it removed that wager, and no other, from
\* the pending wagers of u.
Resolved(u, i) ==
    /\ i \in 1..Len(dice_wait[u])
    /\ dice_wait'[u] = SubSeq(dice_wait[u], 1, i - 1)
                         \o SubSeq(dice_wait[u], i + 1, Len(dice_wait[u]))

DiceRefunds == {"timeout", "invalid", "range"}

\* C31: a wager that times out, or whose reply is no integer or is outside
\* 1..6, gets exactly its bet credited back, once: the step that refunds it
\* removes it from the pending wagers, so that no later reply or timeout
\* credits or debits for it again; and only such wagers are refunded.
C31_Refund ==
    [][\A u \in Users :
          (reply'.op = "dice" /\ reply'.user = u)
          => \E i \in 1..Len(dice_wait[u]) :
                LET w == dice_wait[u][i]
                IN  /\ Resolved(u, i)
                    /\ w.bet = reply'.n
                    /\ w.stage \in {"waiting", "got"}
                    /\ reply'.res = "timeout" <=> w.stage = "waiting"
                    /\ reply'.res \in {"invalid", "range"}
                          <=> (w.stage = "got" /\ ~NamesFace(w))
                    /\ reply'.res \in DiceRefunds
                          => /\ coins'[u].balance = coins[u].balance + w.bet
                             /\ \A v \in Users \ {u} : coins'[v] = coins[v]]_vars

\* A wager has just timed out: its bet is back, the balance is the one it
\* was placed from, and no wager is pending.
C31_Witness ==
    /\ reply.op = "dice" /\ reply.res = "timeout"
    /\ coins[reply.user].balance = reply.val[3]
    /\ reply.val[3] >= reply.n
    /\ dice_wait[reply.user] = <<>>

\* C32: a wager whose reply names a face f in 1..6 is paid on two dice in
\* 1..6: bet * 10 when both equal f, bet * 3 when exactly one does, nothing
\* otherwise; with the stake taken at placement the wager nets +9 * bet,
\* +2 * bet or -bet.
C32_Payout ==
    [][\A u \in Users :
          (reply'.op = "dice" /\ reply'.user = u /\ reply'.res = "rolled")
          => \E i \in 1..Len(dice_wait[u]) :
                LET w == dice_wait[u][i]
                    f == Denotes(w.msg[1])[1]
                    d1 == reply'.val[4]
                    d2 == reply'.val[5]
                    credit == coins'[u].balance - coins[u].balance
                IN  /\ Resolved(u, i)
                    /\ NamesFace(w)
                    /\ w.bet = reply'.n
                    /\ d1 \in 1..6 /\ d2 \in 1..6
                    /\ (d1 = f /\ d2 = f) => credit = w.bet * 10
                    /\ ((d1 = f) # (d2 = f)) => credit = w.bet * 3
                    /\ (d1 # f /\ d2 # f) => credit = 0
                    /\ \A v \in Users \ {u} : coins'[v] = coins[v]
                    /\ coins[u].balance = w.bal - w.bet
                          => coins'[u].balance - w.bal
                                \in {9 * w.bet, 2 * w.bet, -w.bet}]_vars

\* A wager of 50 has just been paid for one matching die: 150 were credited
\* and the balance is 100 above the one the wager was placed from.
C32_Witness ==
    /\ reply.op = "dice" /\ reply.res = "rolled" /\ reply.n = 50
    /\ reply.val[2] = 150
    /\ reply.val[4] # reply.val[5]
    /\ coins[reply.user].balance = reply.val[3] + 100

---------------------------------------------------------------------------
(* Properties of the replies to a wager *)

\* The step is the arrival of a message of author in channel.
Arrival(author, channel) ==
    reply'.op = "wait_for" /\ reply'.user = author /\ reply'.res = channel

\* Wager i of user u has been handed the message of the step.
Handed(u, i) ==
    /\ dice_wait'[u][i].stage = "got"
    /\ dice_wait'[u][i].msg = Some(reply'.val[3])
    /\ dice_wait'[u][i].bet = dice_wait[u][i].bet
    /\ dice_wait'[u][i].channel = dice_wait[u][i].channel
    /\ dice_wait'[u][i].bal = dice_wait[u][i].bal

\* C33 as stated: a message of the issuer in the channel of a wager that has
\* been placed and has not been handed a message yet is handed to it, so that
\* the first message sent after the placement resolves the wager.
C33_FirstAfterPlacement ==
    [][\A u \in Users, ch \in Channels :
          Arrival(u, ch) =>
              \A i \in 1..Len(dice_wait[u]) :
                  (dice_wait[u][i].channel = ch /\ dice_wait[u][i].msg = None)
                      => Handed(u, i)]_vars

\* C33: a pending wager is handed at most one message, the first one its
\* issuer sends in its channel once the prompt has been sent and the handler
\* listens; a message that arrives before, a message of another user and a
\* message in another channel leave the wager as it was; and only a wager
\* that was handed a message is resolved with a roll or as an invalid reply.
C33_FirstHeard ==
    [][/\ \A a \in Users, ch \in Channels :
             Arrival(a, ch) =>
                 /\ DOMAIN dice_wait' = DOMAIN dice_wait
                 /\ \A u \in Users :
                       /\ Len(dice_wait'[u]) = Len(dice_wait[u])
                       /\ \A i \in 1..Len(dice_wait[u]) :
                             IF /\ u = a
                                /\ dice_wait[u][i].channel = ch
                                /\ dice_wait[u][i].stage = "waiting"
                             THEN Handed(u, i)
                             ELSE dice_wait'[u][i] = dice_wait[u][i]
       /\ \A u \in Users :
             (/\ reply'.op = "dice"
              /\ reply'.user = u
              /\ reply'.res \in {"invalid", "range", "rolled"})
                 => \E i \in 1..Len(dice_wait[u]) :
                       /\ dice_wait[u][i].stage = "got"
                       /\ dice_wait[u][i].msg # None
                       /\ dice_wait'[u] = RemoveAt(dice_wait[u], i)]_vars

\* A message has just been handed to the wager of its author in its channel
\* while the wager of the other member in that channel is still waiting.
C33_Witness ==
    /\ reply.op = "wait_for"
    /\ \E i \in 1..Len(dice_wait[reply.user]) :
          /\ dice_wait[reply.user][i].stage = "got"
          /\ dice_wait[reply.user][i].channel = reply.res
          /\ dice_wait[reply.user][i].msg = Some(reply.val[3])
    /\ \E v \in Users \ {reply.user} : \E j \in 1..Len(dice_wait[v]) :
          /\ dice_wait[v][j].stage = "waiting"
          /\ dice_wait[v][j].channel = reply.res

\* C37: of two wagers a user has pending in one channel, a single message of
\* that user is handed to at most one.
C37_OneReplyOneWager ==
    [][\A a \in Users, ch \in Channels :
          Arrival(a, ch) =>
              Cardinality({i \in 1..Len(dice_wait[a]) :
                              /\ dice_wait[a][i].stage # "got"
                              /\ dice_wait'[a][i].stage = "got"}) <= 1]_vars

---------------------------------------------------------------------------
(* Properties of the members who act while a wager is pending *)

OwnOps == {"claim", "sharecoins", "message", "blackjack", "hit", "stand",
           "double", "surrender", "diceroll"}

\* The step handled an operation or a message of member v.
ActsFor(r, v) == r.op \in OwnOps \cup {"wait_for"} /\ r.user = v

\* The operation answered with r was carried out.
Accepted(r) ==
    CASE r.op = "claim" -> r.res = "claimed"
      [] r.op = "sharecoins" -> r.res = "ok"
      [] r.op = "message" -> r.res = "counted"
      [] r.op = "blackjack" -> r.res \notin StartRefusals
      [] r.op = "diceroll" -> r.res = "placed"
      [] r.op \in PlayerMoves -> r.res \notin {"no_hand", "insufficient"}
      [] OTHER -> TRUE

\* What the balance, the last claim, the count, the level and the session
\* of member v, and nothing else, say about the operation answered with r.
Allowed(r, v) ==
    CASE r.op = "claim" ->
             \/ coins[v].last_claim = 0
             \/ now - coins[v].last_claim >= get_settings_db.cooldown
      [] r.op = "sharecoins" ->
             /\ r.n > 0
             /\ r.member \notin {v, BotMember}
             /\ coins[v].balance >= r.n
      [] r.op = "message" ->
             /\ Len(strip(r.val[2])) >= MIN_COUNTABLE_LEN
             /\ now - LastCounted(v) >= get_cooldown
      [] r.op = "blackjack" ->
             /\ Games_get_total(v) >= GAME_MIN_TOTAL
             /\ r.n > 0
             /\ bj_state[v] = None
             /\ coins[v].balance >= r.n
      [] r.op = "diceroll" ->
             /\ Games_get_total(v) >= GAME_MIN_TOTAL
             /\ r.n \in {10, 50, 100}
             /\ coins[v].balance >= r.n
      [] r.op \in PlayerMoves ->
             /\ bj_state[v] # None
             /\ r.op = "double" => coins[v].balance >= bj_state[v][1].bet
      [] OTHER -> TRUE

\* The step left the coins, the count, the session and the wagers of member w
\* alone, but for the coins a transfer sent to w.
LeftAlone(r, w) ==
    /\ coins'[w].last_claim = coins[w].last_claim
    /\ coins'[w].balance = coins[w].balance + LedgerDelta(r, w)
    /\ LedgerDelta(r, w) # 0 => TransferOk(r) /\ r.member = w
    /\ message_counts'[w] = message_counts[w]
    /\ bj_state'[w] = bj_state[w]
    /\ dice_wait'[w] = dice_wait[w]

\* C34: while the handler of a wager of u is suspended, an operation of any
\* other member v is carried out exactly when the balance, last claim,
\* count, level and session of v allow it, whatever wagers are pending; it
\* moves the balance and the count of v by what it reports; refused, it
\* changes no balance, count, session or wager; and it leaves the pending
\* wager, and everything else of the other members, as it was.
C34_OthersProceed ==
    [][\A u \in Users :
          Awaiting(u) =>
              \A v \in Users \ {u} :
                  ActsFor(reply', v) =>
                      /\ Accepted(reply') <=> Allowed(reply', v)
                      /\ coins'[v].balance = coins[v].balance + LedgerDelta(reply', v)
                      /\ message_counts'[v] = message_counts[v] + CountDelta(reply', v)
                      /\ ~Accepted(reply') =>
                            /\ coins' = coins
                            /\ message_counts' = message_counts
                            /\ bj_state' = bj_state
                            /\ dice_wait' = dice_wait
                      /\ (reply'.op = "blackjack" /\ Accepted(reply'))
                            => bj_state'[v] # None
                      /\ (reply'.op = "diceroll" /\ Accepted(reply'))
                            => Len(dice_wait'[v]) = Len(dice_wait[v]) + 1
                      /\ \A w \in Users \ {v} : LeftAlone(reply', w)]_vars

\* While the wager of one member waits for its reply, the other member, who
\* has claimed, written a counted message and played a hand of blackjack in
\* the meantime, has just placed a wager of their own.
C34_Witness ==
    /\ reply.op = "diceroll" /\ reply.res = "placed"
    /\ \E u \in Users \ {reply.user} :
          \E i \in 1..Len(dice_wait[u]) : dice_wait[u][i].stage = "waiting"
    /\ coins[reply.user].last_claim # 0
    /\ message_counts[reply.user] > 0
    /\ bj_sid[reply.user] > 0

---------------------------------------------------------------------------
(* Properties of the settings of the economy *)

\* What the table holds for the guild, a column that was never set (or a
\* symbol that is empty) standing for its default.
Durable ==
    [reward   |-> IF guild_settings.claim_reward = None THEN 10
                  ELSE guild_settings.claim_reward[1],
     cooldown |-> IF guild_settings.claim_cooldown = None THEN 86400
                  ELSE guild_settings.claim_cooldown[1],
     symbol   |-> IF guild_settings.currency_symbol \in {None, Some(<<>>)}
                  THEN DEFAULT_SYMBOL
                  ELSE guild_settings.currency_symbol[1]]

NothingSet ==
    /\ guild_settings.claim_reward = None
    /\ guild_settings.claim_cooldown = None
    /\ guild_settings.currency_symbol = None

Triple(s) == <<s.reward, s.cooldown, s.symbol>>

SettingsShown(r) == r.op \in {"claimcfg", "currency"} /\ r.res = "show"
SettingsWritten(r) ==
    \/ r.op = "claimcfg" /\ r.res \in {"reward", "cooldown"}
    \/ r.op = "currency" /\ r.res = "ok"
SettingsWriteFailed(r) == r.op \in {"claimcfg", "currency"} /\ r.res = "error"

\* C35: a read of the settings returns reward 10, cooldown 86400 and the
\* default symbol while nothing was set; in every state the cached triple,
\* when there is one, is the triple in the table, so that a read returns
\* what the table holds; a read after a write returns the values written;
\* and a write that fails leaves the table and the cached triple unchanged.
C35_Settings ==
    /\ [](NothingSet => get_settings = [reward |-> 10, cooldown |-> 86400,
                                        symbol |-> DEFAULT_SYMBOL])
    /\ [](settings_cache # None => settings_cache[1] = Durable)
    /\ [][/\ SettingsShown(reply') => reply'.val = Triple(Durable)
          /\ (reply'.op = "claim" /\ reply'.res = "claimed")
                => reply'.n = Durable.reward
          /\ SettingsWritten(reply')
                => /\ Triple(get_settings') = reply'.val
                   /\ Triple(Durable') = reply'.val
                   /\ settings_cache' # None
          /\ SettingsWriteFailed(reply')
                => /\ guild_settings' = guild_settings
                   /\ get_settings' = get_settings
                   /\ settings_cache # None => settings_cache' = settings_cache]_vars

\* A write of a new symbol has just failed after a reward was configured:
\* the cached triple still holds that reward and the default symbol.
C35_Witness ==
    /\ reply.op = "currency" /\ reply.res = "error"
    /\ settings_cache # None
    /\ settings_cache[1].reward # 10
    /\ settings_cache[1].symbol = DEFAULT_SYMBOL
    /\ reply.val[3] # DEFAULT_SYMBOL

---------------------------------------------------------------------------
(* Properties of the reconciliation of the level roles *)

\* The step counted a message of u or set the total of u.
TotalChangedFor(r, u) ==
    \/ r.op = "message" /\ r.res = "counted" /\ r.user = u
    \/ r.op = "lv_set" /\ r.member = u /\ r.res # "bad_value"

\* No role call of the step was refused or failed.
RoleCallsPermitted(r, u) ==
    /\ r.op = "message" => r.val[3] = "none"
    /\ r.op = "lv_set" => ensured'[u][1].fault = "none"

\* The level roles u holds after the step.
TiersHeldAfter(u) == member_roles'[u] \cap LevelNames

\* C36: after a counted message or a !lv_set of a member, when every level
\* role exists in the guild and no role call is refused, the member holds
\* the level role of the new total and no other level role.
C36_Reconciled ==
    [][\A u \in Users :
          (/\ TotalChangedFor(reply', u)
           /\ LevelNames \subseteq guild_roles
           /\ RoleCallsPermitted(reply', u))
          => TiersHeldAfter(u) = {get_target_level(get_total_count(u)[1]').name}]_vars

---------------------------------------------------------------------------
(* Properties of the level gate of the games *)

\* live + adjusted, the adjusted count read as 0 when the file is missing
\* and as 0 when it is negative.
ActivityTotal(u) ==
    message_counts[u]
      + (IF adjusted_files[u] = None THEN 0 ELSE Max(0, adjusted_files[u][1]))

\* C38: !blackjack and !diceroll of a user whose total is below 10 are
\* refused for the level, whatever the bet (the level is tested before the
\* bet), with no balance changed, no session created and no wager placed;
\* from 10 on they are never refused for the level; and !hit, !stand,
\* !double and !surrender of a user who has a session are never refused
\* for the level, whatever the total.
C38_LevelGate ==
    [][\A u \in Users :
          /\ (StartBy(reply', u) \/ PlaceBy(reply', u))
                => IF ActivityTotal(u) < 10
                   THEN /\ reply'.res = "level"
                        /\ coins' = coins
                        /\ bj_state' = bj_state
                        /\ bj_sid' = bj_sid
                        /\ dice_wait' = dice_wait
                   ELSE reply'.res # "level"
          /\ (reply'.op \in PlayerMoves /\ reply'.user = u /\ bj_state[u] # None)
                => reply'.res \notin {"level", "no_hand"}]_vars

\* A wager with a stake that is not permitted has just been refused for the
\* level: the user holds coins and a hand dealt before the total was set
\* below 10.
C38_Witness ==
    /\ reply.op = "diceroll" /\ reply.res = "level"
    /\ reply.n \notin {10, 50, 100}
    /\ coins[reply.user].balance >= 10
    /\ bj_state[reply.user] # None
    /\ ActivityTotal(reply.user) < 10

---------------------------------------------------------------------------
(* Properties of the time of the last claim *)

\* C39: the last_claim of a user changes only in the step that rewards a
\* claim of that user, which sets it to the current time; every other
\* handler (starts, moves and settlements of blackjack, debits, refunds and
\* payouts of dice, grants, revocations and transfers, for sender and
\* receiver) leaves every last_claim as it was.
C39_LastClaim ==
    [][\A u \in Users :
          coins'[u].last_claim # coins[u].last_claim
          => /\ reply'.op = "claim" /\ reply'.res = "claimed" /\ reply'.user = u
             /\ coins'[u].last_claim = now]_vars

\* A member who claimed has since wagered the reward on the dice and been
\* paid: the balance moved, the time of the claim is still the one stored.
C39_Witness ==
    /\ reply.op = "dice" /\ reply.res = "rolled" /\ reply.val[2] > 0
    /\ coins[reply.user].last_claim = StartTime
    /\ coins[reply.user].balance > DEFAULT_REWARD

---------------------------------------------------------------------------
(* Properties of the flag ensure_lv_role returns *)

\* C40: the last call of ensure_lv_role for a member returned changed = true
\* exactly when the level roles the member holds after it differ from those
\* held before it; a call that returned changed = false granted and revoked
\* nothing.
C40_ChangedIffDiffers ==
    \A m \in Users :
        ensured[m] # None
        => (ensured[m][1].changed
              <=> member_roles[m] \cap LevelNames # ensured[m][1].before \cap LevelNames)

=============================================================================
